---- MODULE Spec2Model ----
(***************************************************************************)
(* A state-machine model of the AgentChat front-end controllers:           *)
(* ChatController (assets/js/chat.js), MemberController and UIController   *)
(* (assets/js/member.js), FileHandler (assets/js/file-handler.js).         *)
(*                                                                         *)
(* The DOM is the program's only store, so the state is the part of the    *)
(* DOM tree the controllers read and write, the closure variable           *)
(* chatActive, and the browser's queue of pending setTimeout callbacks.    *)
(*                                                                         *)
(* Strings the code inspects character by character (message text, file    *)
(* names, sender names) are sequences of one-symbol strings.  The module   *)
(* is kept in ASCII: a CJK literal of the source is written as its pinyin  *)
(* symbols, one symbol per character.                                      *)
(***************************************************************************)
EXTENDS Integers, Sequences, FiniteSets, TLC

VARIABLES
    chatActive,     \* chat.js:46   let chatActive
    messages,       \* children of .chat-messages: the rendered .message elements
    origin,         \* history: for each rendered message, the call that appended it
    inputValue,     \* .message-input value
    previews,       \* attachment-preview elements placed before .input-wrapper
    toggleBtn,      \* #toggleChatBtn: its innerHTML icon and its title
    exported,       \* the files handed to the browser's download by a.click()
    notifications,  \* .notification elements appended to document.body
    timers,         \* pending setTimeout callbacks, in registration order
    members,        \* children of .members-list: the rendered .member-item rows
    ret,            \* history: the last handler that ran, its arguments and result
    nameInput,      \* value of the group-name input handed to FormValidator
    descInput,      \* value of the group-description input handed to FormValidator
    validation,     \* history: the last validator that ran and what it returned
    modals,         \* style.display of each .modal element, by id
    bodyModalOpen,  \* whether document.body carries the class modal-open
    overlays,       \* .agent-profile-modal elements appended to document.body
    innerWidth,     \* window.innerWidth
    sidebar,        \* classes of .sidebar among collapsed and active
    membersSidebar, \* classes of .members-sidebar among collapsed and active
    mainContent,    \* classes of .main-content among the two companion classes
    sidebarIcon,    \* chevron classes of the icon in #toggleSidebarBtn
    membersIcon     \* chevron classes of the icon in #toggleMembersBtn

\* The chat page proper.
pageVars == <<chatActive, messages, origin, inputValue, previews, toggleBtn,
              exported, notifications, timers, members, ret>>

\* The dialogs beside it.
formVars == <<nameInput, descInput, validation>>
modalVars == <<modals, bodyModalOpen>>
layoutVars == <<innerWidth, sidebar, membersSidebar, mainContent, sidebarIcon,
                membersIcon>>
dialogVars == <<formVars, modalVars, overlays, layoutVars>>

vars == <<pageVars, dialogVars>>

chatVars == <<chatActive, messages, origin, inputValue, previews, toggleBtn,
              exported>>

(***************************************************************************)
(* Bounds of the exploration.                                              *)
(***************************************************************************)
MaxChatDom == 5      \* SpecChat: elements and pending timers
MaxWindowDom == 6    \* SpecWindow
MaxComposeDom == 4   \* SpecCompose
MaxMarkupDom == 4    \* SpecMarkup
MaxOverlays == 2     \* SpecDialogs: agent-profile overlays on the page
MaxMemberDom == 5    \* SpecMember
MaxNotifyDom == 5    \* SpecNotify
MaxRemovalDom == 6   \* SpecRemoval
MaxStatusDom == 4    \* SpecStatus
MaxButtonDom == 4    \* SpecButton
MaxIconPreviews == 2 \* SpecIcon: previews on the page
MaxPageDom == 3      \* SpecPage
MaxTranscript == 2   \* SpecExport: messages of the transcript
MaxExportNotifs == 1 \* SpecExport: notifications on the page
MaxNameLen == 2      \* SpecValidator: length of the names enumerated in full
MaxChinese == 11     \* SpecValidator: Chinese characters of a description
MaxOther == 31       \* SpecValidator: other characters of a description

(***************************************************************************)
(* Program constants.                                                      *)
(***************************************************************************)
REPLY_DELAY == 1000
DETACH_DELAY == 300
NOTIFY_DELAY == 3000
FADE_DELAY == 500
REVOKE_DELAY == 100
CHINESE_CAP == 10   \* form-validator.js:103
OTHER_CAP == 30     \* form-validator.js:103

\* chat.js:323  sender: "yong hu" (the current-user label)
UserLabel == <<"YONG", "HU">>
\* chat.js:366
AgentName == <<"C", "l", "a", "u", "d", "e">>
\* chat.js:367  the canned reply text, one symbol standing for the sentence
CannedText == <<"CANNED_REPLY">>
\* chat.js:169, 259  textContent of the download link: "xia zai"
DownloadLabel == <<"XIA", "ZAI">>
\* chat.js:114  textContent of the thinking badge: "si kao zhong.."
ThinkingLabel == <<"SI", "KAO", "ZHONG", ".", ".">>

(***************************************************************************)
(* Input domains.                                                          *)
(***************************************************************************)
Times == {"09:00"}

Texts == {<<>>, <<" ">>, <<"h">>}

FileImg == [name |-> <<"a", ".", "p", "n", "g">>, type |-> <<"image", "png">>]
FilePdf == [name |-> <<"b", ".", "p", "d", "f">>, type |-> <<"application", "pdf">>]

AttachmentLists == {<<>>, <<FilePdf, FileImg>>}

(***************************************************************************)
(* String helpers.                                                         *)
(***************************************************************************)
IsSpace(c) == c \in {" ", "\n", "\t"}

RECURSIVE TrimStart(_)
TrimStart(s) ==
    IF s = <<>> THEN <<>>
    ELSE IF IsSpace(Head(s)) THEN TrimStart(Tail(s)) ELSE s

RECURSIVE TrimEnd(_)
TrimEnd(s) ==
    IF s = <<>> THEN <<>>
    ELSE IF IsSpace(s[Len(s)]) THEN TrimEnd(SubSeq(s, 1, Len(s) - 1)) ELSE s

\* String.prototype.trim
Trim(s) == TrimEnd(TrimStart(s))

\* String.prototype.charAt(0): the empty string when there is no character
CharAt0(s) == IF s = <<>> THEN <<>> ELSE <<Head(s)>>

\* type.startsWith('image/') on a MIME type <<major, minor>>
IsImageType(type) == type[1] = "image"

\* A markup tag symbol of rich text, such as "<b>" or "</b>"
IsTag(c) == c \in {"<b>", "</b>"}

RECURSIVE StripTags(_)
StripTags(s) ==
    IF s = <<>> THEN <<>>
    ELSE IF IsTag(Head(s)) THEN StripTags(Tail(s))
         ELSE <<Head(s)>> \o StripTags(Tail(s))

(***************************************************************************)
(* Message data objects and their rendering.                               *)
(***************************************************************************)
NoStatus == "undefined"

Message(sender, text, time, isAgent, status, markdown, attachment) ==
    [sender |-> sender, text |-> text, time |-> time, isAgent |-> isAgent,
     status |-> status, markdown |-> markdown, attachment |-> attachment]

\* The .message-attachment block: an optional image preview, then the
\* .attachment-info holding the name span and the download link.
AttachmentBlock(att) ==
    [image |-> IsImageType(att.type),
     name |-> att.name,
     download |-> DownloadLabel,
     href |-> att.url]

\* createMessageElement: the rendered .message element.
\*   class      agent-message / user-message
\*   avatar     .message-avatar text
\*   sender     .message-sender text
\*   badge      the agent layout's "thinking" badge, <<>> when absent
\*   rich       TRUE when the text was assigned through innerHTML
\*   text       what was assigned to the .message-text element
\*   attachment the .message-attachment block appended INSIDE .message-text
\*   time       .message-time text
\*   layout     the order of the blocks inside .message-content
CreateMessageElement(message) ==
    [class |-> IF message.isAgent THEN "agent-message" ELSE "user-message",
     avatar |-> CharAt0(message.sender),
     sender |-> message.sender,
     badge |-> IF message.isAgent /\ message.status = "thinking"
               THEN ThinkingLabel ELSE <<>>,
     rich |-> message.markdown,
     text |-> message.text,
     attachment |-> IF message.attachment = <<>> THEN <<>>
                    ELSE <<AttachmentBlock(message.attachment[1])>>,
     time |-> message.time,
     layout |-> IF message.isAgent
                THEN <<"message-header", "message-text", "message-time">>
                ELSE <<"message-info", "message-bubble">>]

\* Variant whose message object asks for rich rendering.
UserMessage_markdown(text, attachments, time) ==
    Message(UserLabel, text, time, FALSE, NoStatus, TRUE, <<>>)

\* Variant that attaches the last file of the list.
UserMessage_lastAttachment(text, attachments, time) ==
    Message(UserLabel, text, time, FALSE, NoStatus, FALSE,
            IF Len(attachments) > 0
            THEN <<[name |-> attachments[Len(attachments)].name,
                    type |-> attachments[Len(attachments)].type,
                    url |-> <<"blob:">> \o attachments[Len(attachments)].name]>>
            ELSE <<>>)

\* sendMessage's message object (chat.js:322-339)
UserMessage(text, attachments, time) ==
    Message(UserLabel, text, time, FALSE, NoStatus, FALSE,
            IF Len(attachments) > 0
            THEN <<[name |-> attachments[1].name,
                    type |-> attachments[1].type,
                    url |-> <<"blob:">> \o attachments[1].name]>>
            ELSE <<>>)

\* the canned reply handed to receiveMessage by the reply timer (chat.js:365-371)
CannedReply(time) ==
    Message(AgentName, CannedText, time, TRUE, "online", FALSE, <<>>)

\* Messages other callers hand to receiveMessage.
ExternalMessages ==
    {Message(<<"G", "P", "T">>, <<"o", "k">>, "09:00", TRUE, "thinking", FALSE, <<>>),
     Message(<<"B", "o", "b">>, <<"<b>", "y", "</b>">>, "09:01", FALSE, NoStatus, TRUE,
             <<[name |-> FilePdf.name, type |-> FilePdf.type,
                url |-> <<"blob:">> \o FilePdf.name]>>)}

(***************************************************************************)
(* Timers and notifications.                                               *)
(***************************************************************************)
\* A pending setTimeout callback.  ref is what its closure holds: the send it
\* replies to, the notification or the member row it removes.  toggled is
\* history: the toggleChatActive calls since a reply timer was registered
\* (0 for none, 1 for an odd number, 2 for an even number of them).
Timer(kind, delay, ref) ==
    [kind |-> kind, delay |-> delay, ref |-> ref, toggled |-> 0]

\* Variant of a browser that runs pending timers in any order.
MayFire_anyOrder(i) == i \in 1..Len(timers)

\* A timer registered earlier with a delay no longer than timer i's is due no
\* later than timer i, and the browser runs it first.
MayFire(i) ==
    /\ i \in 1..Len(timers)
    /\ \A j \in 1..(i - 1) : timers[j].delay > timers[i].delay

RemoveAt(s, i) == SubSeq(s, 1, i - 1) \o SubSeq(s, i + 1, Len(s))

ReplyIndices(tm) == {i \in 1..Len(tm) : tm[i].kind = "reply"}

\* Identity of a notification element or member row: the least name no live
\* element and no pending closure holds.
UsedNodes ==
    {notifications[i].node : i \in 1..Len(notifications)}
      \cup {members[i].node : i \in 1..Len(members)}
      \cup {timers[i].ref : i \in {k \in 1..Len(timers) : timers[k].kind # "reply"}}
FreshNode == CHOOSE n \in 1..(Cardinality(UsedNodes) + 1) : n \notin UsedNodes

\* A notification text is named by its sentence template; the member name some
\* templates embed is not part of the model.
Text(sentence) == sentence

\* showNotification(message, type): the element it appends
NotificationElement(message, type) ==
    [node |-> FreshNode, message |-> message, type |-> type, fadeOut |-> FALSE]

Ret(op, value, text, atts, msg, pre) ==
    [op |-> op, value |-> value, text |-> text, atts |-> atts, msg |-> msg, pre |-> pre]

\* Variant in which a new notification takes the place of those on screen.
ShowNotification_replacing(message, type, started) ==
    /\ notifications' = <<NotificationElement(message, type)>>
    /\ timers' = timers \o started \o <<Timer("fade", NOTIFY_DELAY, FreshNode)>>

\* showNotification (member.js:543-559) called from a handler that starts the
\* timers `started` itself.
ShowNotification(message, type, started) ==
    /\ notifications' = Append(notifications, NotificationElement(message, type))
    /\ timers' = timers \o started \o <<Timer("fade", NOTIFY_DELAY, FreshNode)>>

(***************************************************************************)
(* ChatController.                                                         *)
(***************************************************************************)
\* Variant with the two looks exchanged (the button showing the state left).
ButtonFor_swapped(active) ==
    IF active
    THEN [icon |-> "fa-comment", title |-> <<"KAI", "QI", "LIAO", "TIAN">>]
    ELSE [icon |-> "fa-comment-slash", title |-> <<"GUAN", "BI", "LIAO", "TIAN">>]

\* The icon and title toggleChatActive gives #toggleChatBtn (chat.js:460-470);
\* "guan bi liao tian" = close chat, "kai qi liao tian" = open chat.
ButtonFor(active) ==
    IF active
    THEN [icon |-> "fa-comment-slash", title |-> <<"GUAN", "BI", "LIAO", "TIAN">>]
    ELSE [icon |-> "fa-comment", title |-> <<"KAI", "QI", "LIAO", "TIAN">>]

\* The button as the static page holds it before any toggle.
StaticButton == [icon |-> "static", title |-> <<>>]

\* The send ids of the transcript: the k-th successful sendMessage is send k.
NumSends == Cardinality({i \in 1..Len(origin) : origin[i].op = "send"})

\* preview.remove() for every element matching .file-preview (chat.js:356)
WithoutFilePreviews(ps) ==
    SelectSeq(ps, LAMBDA p : "file-preview" \notin p.classes)

\* The timer sendMessage registers for its canned reply (chat.js:364-372)
ReplyTimer(id) == Timer("reply", REPLY_DELAY, id)

\* Variant that renders whatever the flag says.
ReceiveRenders_always(active) == TRUE

\* receiveMessage(message) (chat.js:406-428): whether it renders
ReceiveRenders(active) == active

\* Variant without the check of the flag.
SendCheck_flagUnchecked(active, text, attachments) ==
    IF Trim(text) = <<>> /\ Len(attachments) = 0 THEN "empty" ELSE "ok"

\* Variant that compares the text untrimmed.
SendCheck_untrimmed(active, text, attachments) ==
    IF ~active THEN "inactive"
    ELSE IF text = <<>> /\ Len(attachments) = 0 THEN "empty"
    ELSE "ok"

\* sendMessage's two validations (chat.js:308, 315): "ok", "inactive", "empty"
SendCheck(active, text, attachments) ==
    IF ~active THEN "inactive"
    ELSE IF Trim(text) = <<>> /\ Len(attachments) = 0 THEN "empty"
    ELSE "ok"

\* Variant that asks for a reply only when the message carries text.
SendMessage_replyOnText(text, attachments, time) ==
    LET check == SendCheck(chatActive, text, attachments) IN
    /\ ret' = Ret("sendMessage", check = "ok", text, attachments, <<>>, chatActive)
    /\ UNCHANGED <<chatActive, toggleBtn, exported, members>>
    /\ IF check = "inactive"
       THEN /\ ShowNotification(Text("chat-closed-cannot-send"), "error", <<>>)
            /\ UNCHANGED <<messages, origin, inputValue, previews>>
       ELSE IF check = "empty"
       THEN /\ ShowNotification(Text("message-must-not-be-empty"), "error", <<>>)
            /\ UNCHANGED <<messages, origin, inputValue, previews>>
       ELSE /\ messages' = Append(messages,
                   CreateMessageElement(UserMessage(text, attachments, time)))
            /\ origin' = Append(origin, [op |-> "send", id |-> NumSends + 1])
            /\ inputValue' = <<>>
            /\ previews' = WithoutFilePreviews(previews)
            /\ timers' = IF Trim(text) = <<>> THEN timers
                         ELSE Append(timers, ReplyTimer(NumSends + 1))
            /\ UNCHANGED notifications

\* sendMessage(text, attachments) at wall-clock time `time`
SendMessage(text, attachments, time) ==
    LET check == SendCheck(chatActive, text, attachments) IN
    /\ ret' = Ret("sendMessage", check = "ok", text, attachments, <<>>, chatActive)
    /\ UNCHANGED <<chatActive, toggleBtn, exported, members>>
    /\ IF check = "inactive"
       THEN /\ ShowNotification(Text("chat-closed-cannot-send"), "error", <<>>)
            /\ UNCHANGED <<messages, origin, inputValue, previews>>
       ELSE IF check = "empty"
       THEN /\ ShowNotification(Text("message-must-not-be-empty"), "error", <<>>)
            /\ UNCHANGED <<messages, origin, inputValue, previews>>
       ELSE /\ messages' = Append(messages,
                   CreateMessageElement(UserMessage(text, attachments, time)))
            /\ origin' = Append(origin, [op |-> "send", id |-> NumSends + 1])
            /\ inputValue' = <<>>
            /\ previews' = WithoutFilePreviews(previews)
            /\ timers' = Append(timers, ReplyTimer(NumSends + 1))
            /\ UNCHANGED notifications

sendMessage ==
    \E text \in Texts, attachments \in AttachmentLists, time \in Times :
        SendMessage(text, attachments, time)

\* receiveMessage(message) called by `op` on behalf of `who`; `fired` is the
\* timer whose callback makes the call, if one does
ReceiveMessage(message, op, who, fired) ==
    /\ ret' = Ret(op, ReceiveRenders(chatActive), <<>>, fired, <<message>>, chatActive)
    /\ IF ReceiveRenders(chatActive)
       THEN /\ messages' = Append(messages, CreateMessageElement(message))
            /\ origin' = Append(origin, who)
       ELSE UNCHANGED <<messages, origin>>
    /\ UNCHANGED <<chatActive, inputValue, previews, toggleBtn, exported,
                   notifications, members>>

receiveMessage ==
    \E message \in ExternalMessages :
        /\ ReceiveMessage(message, "receiveMessage", [op |-> "recv", id |-> 0], <<>>)
        /\ UNCHANGED timers

\* Variant that hands the previewed files to sendMessage.
clickSend_attachesPreviews ==
    \E time \in Times :
        SendMessage(Trim(inputValue),
                    [i \in 1..Len(previews) |->
                        [name |-> previews[i].name, type |-> <<"image", "png">>]],
                    time)

\* A click on .send-btn, or Enter in the input, which clicks it
\* (part_001:596-617): the trimmed input and an empty attachment list
clickSend ==
    \E time \in Times : SendMessage(Trim(inputValue), <<>>, time)

\* Text carrying markup, as a user may type it and as a server may send it.
MarkupTexts == {<<"h">>, <<"<b>", "h", "</b>">>}

\* Messages from outside in both layouts, with and without the markdown flag.
MarkupMessages ==
    {Message(<<"G", "P", "T">>, <<"<b>", "y", "</b>">>, "09:00", agent, "online",
             markdown, <<>>) : agent \in BOOLEAN, markdown \in BOOLEAN}

\* The elements the browser builds from the text of a rendered message: the
\* tags of the text when it was assigned as innerHTML, none when it was
\* assigned as textContent (chat.js:126-132, 217-223).
ChildTags(el) == IF el.rich THEN SelectSeq(el.text, IsTag) ELSE <<>>

\* sendMessage with text that carries markup
sendMarkup ==
    \E text \in MarkupTexts, time \in Times : SendMessage(text, <<>>, time)

\* receiveMessage with text that carries markup
receiveMarkup ==
    \E message \in MarkupMessages :
        /\ ReceiveMessage(message, "receiveMessage", [op |-> "recv", id |-> 0], <<>>)
        /\ UNCHANGED timers

\* Variant registered with setInterval: the timer stays after it has run.
replyTimer_interval ==
    \E i \in ReplyIndices(timers), time \in Times :
        /\ MayFire(i)
        /\ timers' = timers
        /\ ReceiveMessage(CannedReply(time), "replyTimer",
                          [op |-> "reply", id |-> timers[i].ref], <<timers[i]>>)

\* Variant that renders the reply itself instead of going through
\* receiveMessage, and so never looks at the flag.
replyTimer_direct ==
    \E i \in ReplyIndices(timers), time \in Times :
        /\ MayFire(i)
        /\ timers' = RemoveAt(timers, i)
        /\ messages' = Append(messages, CreateMessageElement(CannedReply(time)))
        /\ origin' = Append(origin, [op |-> "reply", id |-> timers[i].ref])
        /\ ret' = Ret("replyTimer", TRUE, <<>>, <<timers[i]>>, <<CannedReply(time)>>,
                      chatActive)
        /\ UNCHANGED <<chatActive, inputValue, previews, toggleBtn, exported,
                       notifications, members>>

\* The reply timer's callback (chat.js:364-372)
replyTimer ==
    \E i \in ReplyIndices(timers), time \in Times :
        /\ MayFire(i)
        /\ timers' = RemoveAt(timers, i)
        /\ ReceiveMessage(CannedReply(time), "replyTimer",
                          [op |-> "reply", id |-> timers[i].ref], <<timers[i]>>)

\* History: count one more toggle on every pending reply timer.
Toggled(tm) ==
    [i \in 1..Len(tm) |->
        IF tm[i].kind = "reply"
        THEN [tm[i] EXCEPT !.toggled = IF @ = 1 THEN 2 ELSE 1]
        ELSE tm[i]]

\* toggleChatActive() (chat.js:451-473)
toggleChatActive ==
    /\ chatActive' = ~chatActive
    /\ toggleBtn' = ButtonFor(chatActive')
    /\ notifications' = Append(notifications,
           IF chatActive' THEN NotificationElement(Text("chat-opened"), "success")
           ELSE NotificationElement(Text("chat-closed"), "warning"))
    /\ timers' = Append(Toggled(timers), Timer("fade", NOTIFY_DELAY, FreshNode))
    /\ ret' = Ret("toggleChatActive", chatActive', <<>>, <<>>, <<>>, chatActive)
    /\ UNCHANGED <<messages, origin, inputValue, previews, exported, members>>

(***************************************************************************)
(* UIController.showNotification's two timers (member.js:554-558).         *)
(***************************************************************************)
NodeIndex(list, node) == {i \in 1..Len(list) : list[i].node = node}

\* Variant in which the fading of a notification re-opens the chat.
fadeTimer_reopens ==
    \E i \in 1..Len(timers) :
        /\ timers[i].kind = "fade"
        /\ MayFire(i)
        /\ notifications' =
               [k \in 1..Len(notifications) |->
                   IF notifications[k].node = timers[i].ref
                   THEN [notifications[k] EXCEPT !.fadeOut = TRUE]
                   ELSE notifications[k]]
        /\ timers' = Append(RemoveAt(timers, i),
                            Timer("unnotify", FADE_DELAY, timers[i].ref))
        /\ ret' = Ret("fadeTimer", TRUE, <<>>, <<>>, <<>>, chatActive)
        /\ chatActive' = TRUE
        /\ UNCHANGED <<messages, origin, inputValue, previews, toggleBtn,
                       exported, members>>

\* after 3000 ms: mark the notification fade-out and start the 500 ms timer
fadeTimer ==
    \E i \in 1..Len(timers) :
        /\ timers[i].kind = "fade"
        /\ MayFire(i)
        /\ notifications' =
               [k \in 1..Len(notifications) |->
                   IF notifications[k].node = timers[i].ref
                   THEN [notifications[k] EXCEPT !.fadeOut = TRUE]
                   ELSE notifications[k]]
        /\ timers' = Append(RemoveAt(timers, i),
                            Timer("unnotify", FADE_DELAY, timers[i].ref))
        /\ ret' = Ret("fadeTimer", TRUE, <<>>, <<>>, <<>>, chatActive)
        /\ UNCHANGED <<chatVars, members>>

\* after 500 ms more: notification.remove()
unnotifyTimer ==
    \E i \in 1..Len(timers) :
        /\ timers[i].kind = "unnotify"
        /\ MayFire(i)
        /\ notifications' =
               SelectSeq(notifications, LAMBDA n : n.node # timers[i].ref)
        /\ timers' = RemoveAt(timers, i)
        /\ ret' = Ret("unnotifyTimer", TRUE, <<>>, <<>>, <<>>, chatActive)
        /\ UNCHANGED <<chatVars, members>>

(***************************************************************************)
(* The page's own events on the chat input.                                *)
(***************************************************************************)
\* The user edits the .message-input field.
typeInput ==
    \E text \in Texts :
        /\ text # inputValue
        /\ inputValue' = text
        /\ ret' = Ret("typeInput", TRUE, text, <<>>, <<>>, chatActive)
        /\ UNCHANGED <<chatActive, messages, origin, previews, toggleBtn, exported,
                       notifications, timers, members>>

\* String.prototype.endsWith
EndsWith(s, suffix) ==
    /\ Len(suffix) <= Len(s)
    /\ SubSeq(s, Len(s) - Len(suffix) + 1, Len(s)) = suffix

\* Variant that looks at the extension before the MIME type.
GetFileIcon_extensionFirst(file) ==
    IF EndsWith(file.name, <<".", "p", "d", "f">>) THEN "pdf"
    ELSE IF \/ EndsWith(file.name, <<".", "d", "o", "c">>)
            \/ EndsWith(file.name, <<".", "d", "o", "c", "x">>) THEN "word"
    ELSE IF \/ EndsWith(file.name, <<".", "x", "l", "s">>)
            \/ EndsWith(file.name, <<".", "x", "l", "s", "x">>) THEN "excel"
    ELSE IF \/ EndsWith(file.name, <<".", "p", "p", "t">>)
            \/ EndsWith(file.name, <<".", "p", "p", "t", "x">>) THEN "powerpoint"
    ELSE IF IsImageType(file.type) THEN "image"
    ELSE "document"

\* getFileIcon(file) (file-handler.js:42-67); the emoji are named by what they
\* stand for
GetFileIcon(file) ==
    IF IsImageType(file.type) THEN "image"
    ELSE IF EndsWith(file.name, <<".", "p", "d", "f">>) THEN "pdf"
    ELSE IF \/ EndsWith(file.name, <<".", "d", "o", "c">>)
            \/ EndsWith(file.name, <<".", "d", "o", "c", "x">>) THEN "word"
    ELSE IF \/ EndsWith(file.name, <<".", "x", "l", "s">>)
            \/ EndsWith(file.name, <<".", "x", "l", "s", "x">>) THEN "excel"
    ELSE IF \/ EndsWith(file.name, <<".", "p", "p", "t">>)
            \/ EndsWith(file.name, <<".", "p", "p", "t", "x">>) THEN "powerpoint"
    ELSE "document"

\* FileHandler.createFilePreview(file): the preview element; the code gives it
\* inline styles and no class.
CreateFilePreview(file) ==
    [name |-> file.name, icon |-> GetFileIcon(file), classes |-> {}]

\* FileHandler.handleFileUpload(file) with no container: insert the preview
\* before .input-wrapper.
HandleFileUpload(file, op) ==
    /\ previews' = Append(previews, CreateFilePreview(file))
    /\ ret' = Ret(op, TRUE, <<>>, <<file>>, <<>>, chatActive)
    /\ UNCHANGED <<chatActive, messages, origin, inputValue, toggleBtn, exported,
                   notifications, timers, members>>

handleFileUpload ==
    \E file \in {FileImg} : HandleFileUpload(file, "handleFileUpload")

\* File names with each extension getFileIcon knows, in lower case and not,
\* at the end of the name and not.
IconNames ==
    {<<"a", ".", "p", "d", "f">>, <<"a", ".", "P", "D", "F">>,
     <<"a", ".", "d", "o", "c">>, <<"a", ".", "d", "o", "c", "x">>,
     <<"a", ".", "x", "l", "s">>, <<"a", ".", "x", "l", "s", "x">>,
     <<"a", ".", "p", "p", "t">>, <<"a", ".", "p", "p", "t", "x">>,
     <<"a", ".", "t", "x", "t">>, <<"p", "d", "f">>,
     <<"a", ".", "p", "d", "f", ".", "t", "x", "t">>, <<".", "p", "d", "f">>,
     <<"a", ".", "p", "n", "g">>, <<"a", ".", "D", "o", "c", "x">>,
     <<"a", "p", "d", "f">>, <<"a", ".", "p", "p", "t", "x", ".", "p", "d", "f">>}

\* MIME types by their segments: an image type, another type and the empty
\* string of a file the browser cannot type.
IconTypes == {<<"image", "png">>, <<"application", "pdf">>, <<"">>}

IconFiles == {[name |-> n, type |-> t] : n \in IconNames, t \in IconTypes}

\* handleFileUpload with a file of any of these names and types
uploadAnyFile ==
    \E file \in IconFiles : HandleFileUpload(file, "handleFileUpload")

\* A click on the preview's remove button (file-handler.js:131-134)
removePreview ==
    \E i \in 1..Len(previews) :
        /\ previews' = RemoveAt(previews, i)
        /\ ret' = Ret("removePreview", TRUE, <<>>, <<>>, <<previews[i]>>, chatActive)
        /\ UNCHANGED <<chatActive, messages, origin, inputValue, toggleBtn, exported,
                       notifications, timers, members>>

\* The File handlePastedImage wraps the pasted blob in: "zhan tie tu pian"
\* (pasted image), "_", the time stamp, ".png" (file-handler.js:211-213)
PastedFile ==
    [name |-> <<"ZHAN", "TIE", "TU", "PIAN", "_", "1", ".", "p", "n", "g">>,
     type |-> <<"image", "png">>]

\* FileHandler.handlePastedImage(imageBlob) with no container
handlePastedImage == HandleFileUpload(PastedFile, "handlePastedImage")

\* exportChatHistory() (chat.js:505-550)

\* textContent of the .message-text element: its own text (markup removed when
\* it was assigned as rich content) followed by the text of the attachment
\* block nested in it: the name span, then the download link.
MessageTextContent(el) ==
    (IF el.rich THEN StripTags(el.text) ELSE el.text)
      \o (IF el.attachment = <<>> THEN <<>>
          ELSE el.attachment[1].name \o el.attachment[1].download)

\* One "## sender (time)\ntext\n\n" section
ExportSection(el) ==
    [sender |-> el.sender, time |-> el.time, text |-> MessageTextContent(el)]

\* The document: the "# ..." heading, then one section per .message element
ExportContent(els) ==
    [heading |-> "chat-history-export",
     sections |-> [i \in 1..Len(els) |-> ExportSection(els[i])]]

exportChatHistory ==
    /\ exported' = <<ExportContent(messages)>>
    /\ ShowNotification(Text("chat-history-exported"), "success",
                        <<Timer("revoke", REVOKE_DELAY, 0)>>)
    /\ ret' = Ret("exportChatHistory", TRUE, <<>>, <<>>, <<>>, chatActive)
    /\ UNCHANGED <<chatActive, messages, origin, inputValue, previews, toggleBtn,
                   members>>

\* after 100 ms: URL.revokeObjectURL(url)
revokeTimer ==
    \E i \in 1..Len(timers) :
        /\ timers[i].kind = "revoke"
        /\ MayFire(i)
        /\ timers' = RemoveAt(timers, i)
        /\ ret' = Ret("revokeTimer", TRUE, <<>>, <<>>, <<>>, chatActive)
        /\ UNCHANGED <<chatVars, notifications, members>>

(***************************************************************************)
(* MemberController (member.js:10-134).                                    *)
(***************************************************************************)
\* "zhi neng ti": the word the role is tested for (member.js:16)
AgentWord == <<"ZHI", "NENG", "TI">>

\* /zhi neng ti/.test(role)
MentionsAgent(role) ==
    \E i \in 1..Len(role) :
        /\ i + Len(AgentWord) - 1 <= Len(role)
        /\ SubSeq(role, i, i + Len(AgentWord) - 1) = AgentWord

Member(id, name, role, status) ==
    [id |-> id, name |-> name, role |-> role, status |-> status]

\* The member objects handed to addMember
MemberInputs ==
    {Member("m1", <<"A", "n", "n">>, <<"A", "I">> \o AgentWord, "online"),
     Member("m1", <<"B", "o", "b">>, <<"u", "s", "e", "r">>, "online"),
     Member("m2", <<"B", "o", "b">>, <<"u", "s", "e", "r">>, "online")}

MemberIds == {"m1", "m2"}
Statuses == {"busy"}

\* createMemberElement(member): the .member-item row
CreateMemberElement(member) ==
    [node |-> FreshNode,
     id |-> member.id,
     name |-> member.name,
     class |-> IF member.role # <<>> /\ MentionsAgent(member.role)
               THEN "agent" ELSE "user",
     avatar |-> CharAt0(member.name),
     role |-> member.role,
     status |-> member.status,
     deleting |-> FALSE]

\* Variant that does not see a row already marked for removal.
FindMember_skipsDeleting(rows, id) ==
    IF \E i \in 1..Len(rows) : rows[i].id = id /\ ~rows[i].deleting
    THEN CHOOSE i \in 1..Len(rows) :
             /\ rows[i].id = id /\ ~rows[i].deleting
             /\ \A j \in 1..(i - 1) : rows[j].id # id \/ rows[j].deleting
    ELSE 0

\* document.querySelector('.member-item[data-member-id="<id>"]'): the index of
\* the first row with that id, 0 when there is none
FindMember(rows, id) ==
    IF \E i \in 1..Len(rows) : rows[i].id = id
    THEN CHOOSE i \in 1..Len(rows) :
             /\ rows[i].id = id
             /\ \A j \in 1..(i - 1) : rows[j].id # id
    ELSE 0

\* Variant without the look-up of the id.
AddMember_unchecked(member) ==
    /\ ret' = Ret("addMember", TRUE, <<>>, <<>>, <<member>>, chatActive)
    /\ UNCHANGED chatVars
    /\ members' = Append(members, CreateMemberElement(member))
    /\ ShowNotification(Text("member-added"), "success", <<>>)

\* addMember(member)
AddMember(member) ==
    LET existing == FindMember(members, member.id) IN
    /\ ret' = Ret("addMember", existing = 0, <<>>, <<>>, <<member>>, chatActive)
    /\ UNCHANGED chatVars
    /\ IF existing # 0
       THEN /\ ShowNotification(Text("member-exists"), "warning", <<>>)
            /\ UNCHANGED members
       ELSE /\ members' = Append(members, CreateMemberElement(member))
            /\ ShowNotification(Text("member-added"), "success", <<>>)

addMember == \E member \in MemberInputs : AddMember(member)

\* The timer removeMember registers: its closure holds the row and the id
\* the call was made with
DetachTimer(row) ==
    [kind |-> "detach", delay |-> DETACH_DELAY, ref |-> row.node, toggled |-> 0,
     id |-> row.id]


\* removeMember(memberId)
RemoveMember(id) ==
    LET found == FindMember(members, id) IN
    /\ ret' = Ret("removeMember", found # 0, <<id>>, <<>>, <<>>, chatActive)
    /\ UNCHANGED chatVars
    /\ IF found = 0
       THEN /\ ShowNotification(Text("member-not-found"), "error", <<>>)
            /\ UNCHANGED members
       ELSE /\ members' = [members EXCEPT ![found].deleting = TRUE]
            /\ timers' = Append(timers, DetachTimer(members[found]))
            /\ UNCHANGED notifications

removeMember == \E id \in MemberIds : RemoveMember(id)

\* Variant that leaves the row attached.
Detach_kept(rows, node) == rows

\* memberItem.remove(): detach that row, if it is still attached
Detach(rows, node) == SelectSeq(rows, LAMBDA r : r.node # node)

\* Variant that stays quiet when the row is already gone.
detachTimer_quietWhenGone ==
    \E i \in 1..Len(timers) :
        /\ timers[i].kind = "detach"
        /\ MayFire(i)
        /\ members' = Detach(members, timers[i].ref)
        /\ IF \E k \in 1..Len(members) : members[k].node = timers[i].ref
           THEN /\ notifications' = Append(notifications,
                       NotificationElement(Text("member-deleted"), "success"))
                /\ timers' = Append(RemoveAt(timers, i),
                                    Timer("fade", NOTIFY_DELAY, FreshNode))
           ELSE /\ notifications' = notifications
                /\ timers' = RemoveAt(timers, i)
        /\ ret' = Ret("detachTimer", TRUE, <<>>, <<timers[i]>>, <<members>>, chatActive)
        /\ UNCHANGED chatVars

\* The removal timer's callback (member.js:101-104); the history keeps the
\* timer that fired and the rows it found
detachTimer ==
    \E i \in 1..Len(timers) :
        /\ timers[i].kind = "detach"
        /\ MayFire(i)
        /\ members' = Detach(members, timers[i].ref)
        /\ notifications' = Append(notifications,
               NotificationElement(Text("member-deleted"),
                                   "success"))
        /\ timers' = Append(RemoveAt(timers, i), Timer("fade", NOTIFY_DELAY, FreshNode))
        /\ ret' = Ret("detachTimer", TRUE, <<>>, <<timers[i]>>, <<members>>, chatActive)
        /\ UNCHANGED chatVars

\* The statuses the page's style sheet knows.
KnownStatuses == {"online", "busy", "offline"}

\* Variant that turns an unknown status away.
UpdateMemberStatus_validated(id, status) ==
    LET found == FindMember(members, id) IN
    /\ ret' = Ret("updateMemberStatus", found # 0 /\ status \in KnownStatuses,
                  <<id>>, <<>>, <<status>>, chatActive)
    /\ IF found = 0 \/ status \notin KnownStatuses
       THEN UNCHANGED members
       ELSE members' = [members EXCEPT ![found].status = status]
    /\ UNCHANGED <<chatVars, notifications, timers>>

\* updateMemberStatus(memberId, status)
UpdateMemberStatus(id, status) ==
    LET found == FindMember(members, id) IN
    /\ ret' = Ret("updateMemberStatus", found # 0, <<id>>, <<>>, <<status>>, chatActive)
    /\ IF found = 0
       THEN UNCHANGED members
       ELSE members' = [members EXCEPT ![found].status = status]
    /\ UNCHANGED <<chatVars, notifications, timers>>

updateMemberStatus ==
    \E id \in MemberIds, status \in Statuses : UpdateMemberStatus(id, status)

\* Status strings of any kind: one the style sheet knows, the empty string
\* and one it has no rule for.
AnyStatuses == {"offline", "", "on leave"}

\* updateMemberStatus called with any string
updateMemberStatusAny ==
    \E id \in MemberIds, status \in AnyStatuses : UpdateMemberStatus(id, status)

(***************************************************************************)
(* FormValidator (assets/js/form-validator.js).  The strings it reads are  *)
(* sequences of UTF-16 code units, which is what the regular expressions   *)
(* and .length of the code see.                                            *)
(***************************************************************************)
\* [a-zA-Z0-9_]
IsWordUnit(c) == c \in (48..57) \cup (65..90) \cup (97..122) \cup {95}

\* [一-龥]
IsChineseUnit(c) == c \in 19968..40869

\* White space and line terminators, which String.prototype.trim strips
IsSpaceUnit(c) ==
    c \in {9, 10, 11, 12, 13, 32, 160, 5760, 8232, 8233, 8239, 8287, 12288, 65279}
            \cup (8192..8202)

RECURSIVE TrimStartUnits(_)
TrimStartUnits(s) ==
    IF s = <<>> THEN <<>>
    ELSE IF IsSpaceUnit(Head(s)) THEN TrimStartUnits(Tail(s)) ELSE s

RECURSIVE TrimEndUnits(_)
TrimEndUnits(s) ==
    IF s = <<>> THEN <<>>
    ELSE IF IsSpaceUnit(s[Len(s)]) THEN TrimEndUnits(SubSeq(s, 1, Len(s) - 1))
    ELSE s

\* input.value.trim()
TrimUnits(s) == TrimEndUnits(TrimStartUnits(s))

\* /^[a-zA-Z0-9_]+$/.test(name)
TestWord(name) == Len(name) >= 1 /\ \A i \in 1..Len(name) : IsWordUnit(name[i])

\* desc.match(/[一-龥]/g) || []
RECURSIVE MatchChinese(_)
MatchChinese(desc) ==
    IF desc = <<>> THEN <<>>
    ELSE (IF IsChineseUnit(Head(desc)) THEN <<Head(desc)>> ELSE <<>>)
            \o MatchChinese(Tail(desc))

\* "qing shu ru qun liao ming cheng": please enter a group name
EmptyNameMessage == <<"QING", "SHU", "RU", "QUN", "LIAO", "MING", "CHENG">>

\* "qun liao ming cheng bi xu shi ying wen zi mu, shu zi huo xia hua xian":
\* the name must be letters, digits or underscores
InvalidCharsMessage ==
    <<"QUN", "LIAO", "MING", "CHENG", "BI", "XU", "SHI", "YING", "WEN", "ZI",
      "MU", ",", "SHU", "ZI", "HUO", "XIA", "HUA", "XIAN">>

\* "qun liao miao shu bu neng chao guo 10 ge zhong wen zi huo 30 ge ying wen
\* zi fu": the description must not exceed 10 Chinese or 30 English characters
TooLongMessage ==
    <<"QUN", "LIAO", "MIAO", "SHU", "BU", "NENG", "CHAO", "GUO", "1", "0", "GE",
      "ZHONG", "WEN", "ZI", "HUO", "3", "0", "GE", "YING", "WEN", "ZI", "FU">>

Valid == [isValid |-> TRUE]
Invalid(message) == [isValid |-> FALSE, message |-> message]

\* validateGroupName(name)
ValidateGroupName(name) ==
    IF name = <<>> THEN Invalid(EmptyNameMessage)
    ELSE IF ~TestWord(name) THEN Invalid(InvalidCharsMessage)
    ELSE Valid

\* Variant with one cap on the two counts together.
ValidateGroupDesc_combined(desc) ==
    IF Len(desc) > CHINESE_CAP + OTHER_CAP THEN Invalid(TooLongMessage) ELSE Valid

\* validateGroupDesc(desc)
ValidateGroupDesc(desc) ==
    IF Len(desc) > 0
    THEN LET chineseCount == Len(MatchChinese(desc))
             otherCount == Len(desc) - chineseCount
         IN  IF chineseCount > CHINESE_CAP \/ otherCount > OTHER_CAP
             THEN Invalid(TooLongMessage)
             ELSE Valid
    ELSE Valid

\* validateCreateChatForm(groupNameInput, groupDescInput)
ValidateCreateChatForm(nameValue, descValue) ==
    LET nameValidation == ValidateGroupName(TrimUnits(nameValue))
        descValidation == ValidateGroupDesc(TrimUnits(descValue))
    IN  IF ~nameValidation.isValid THEN nameValidation
        ELSE IF ~descValidation.isValid THEN descValidation
        ELSE Valid

\* Variant that looks at the description before the name.
ValidateSettingsForm_descFirst(nameValue, descValue) ==
    LET nameValidation == ValidateGroupName(TrimUnits(nameValue))
        descValidation == ValidateGroupDesc(TrimUnits(descValue))
    IN  IF ~descValidation.isValid THEN descValidation
        ELSE IF ~nameValidation.isValid THEN nameValidation
        ELSE Valid

\* validateSettingsForm(settingsNameInput, settingsDescInput)
ValidateSettingsForm(nameValue, descValue) ==
    LET nameValidation == ValidateGroupName(TrimUnits(nameValue))
        descValidation == ValidateGroupDesc(TrimUnits(descValue))
    IN  IF ~nameValidation.isValid THEN nameValidation
        ELSE IF ~descValidation.isValid THEN descValidation
        ELSE Valid

NoValidation == [op |-> "none", result |-> Valid]

\* A validator ran on the values the two inputs hold.
Validated(op, result) ==
    /\ validation' = [op |-> op, result |-> result]
    /\ UNCHANGED <<nameInput, descInput, pageVars, modalVars, overlays, layoutVars>>

validateGroupName == Validated("validateGroupName", ValidateGroupName(nameInput))

validateGroupDesc == Validated("validateGroupDesc", ValidateGroupDesc(descInput))

validateCreateChatForm ==
    Validated("validateCreateChatForm", ValidateCreateChatForm(nameInput, descInput))

validateSettingsForm ==
    Validated("validateSettingsForm", ValidateSettingsForm(nameInput, descInput))

\* The code units names are enumerated over: the ends of the three ranges of
\* the pattern and their neighbours, the underscore and its neighbours, a
\* space.
NameUnits == {32, 47, 48, 57, 58, 64, 65, 90, 91, 95, 96, 97, 122, 123}

Rep(c, n) == [i \in 1..n |-> c]

Names == UNION {[1..k -> NameUnits] : k \in 0..MaxNameLen}

\* Names beside a description under test: empty, blank, valid, padded, invalid.
CornerNames == {<<>>, <<32>>, <<97>>, <<32, 97, 95, 32>>, <<97, 45>>}

\* n Chinese and m other characters, in either order; the second family uses
\* the last character of the range and its successor.
Descs ==
    {Rep(19968, n) \o Rep(97, m) : n \in 0..MaxChinese, m \in 0..MaxOther}
        \cup {Rep(40870, m) \o Rep(40869, n) : n \in 0..MaxChinese, m \in 0..MaxOther}

\* Descriptions beside a name under test: empty, too many Chinese, too many
\* others, and one that is within the caps only once trimmed.
CornerDescs ==
    {<<>>, Rep(19968, CHINESE_CAP + 1), Rep(97, OTHER_CAP + 1),
     <<32>> \o Rep(97, OTHER_CAP) \o <<12288>>}

(***************************************************************************)
(* UIController: modals and the agent-profile overlay (member.js).         *)
(***************************************************************************)
\* The .modal elements of the page (part_001:150, 165)
ModalIds == {"newChatModal", "settingsModal"}

\* style.display before any call: empty, the style sheet decides (hidden)
StyleSheetDisplay == ""

\* What these handlers leave alone.
PageStill ==
    UNCHANGED <<chatVars, notifications, timers, members, formVars, layoutVars>>

\* showModal(modalId) (member.js:480-484)
ShowModal(id) ==
    /\ modals' = [modals EXCEPT ![id] = "flex"]
    /\ bodyModalOpen' = TRUE
    /\ ret' = Ret("showModal", TRUE, <<id>>, <<>>, <<modals>>, chatActive)
    /\ UNCHANGED overlays
    /\ PageStill

showModal == \E id \in ModalIds : ShowModal(id)

\* hideModal(modalId) (member.js:499-503)
HideModal(id) ==
    /\ modals' = [modals EXCEPT ![id] = "none"]
    /\ bodyModalOpen' = FALSE
    /\ ret' = Ret("hideModal", TRUE, <<id>>, <<>>, <<modals>>, chatActive)
    /\ UNCHANGED overlays
    /\ PageStill

hideModal == \E id \in ModalIds : HideModal(id)

\* Variant that hides the modals and forgets the body's marker.
hideAllModals_keepsMarker ==
    /\ modals' = [id \in ModalIds |-> "none"]
    /\ ret' = Ret("hideAllModals", TRUE, <<>>, <<>>, <<modals>>, chatActive)
    /\ UNCHANGED <<bodyModalOpen, overlays>>
    /\ PageStill

\* hideAllModals() (member.js:517-524)
hideAllModals ==
    /\ modals' = [id \in ModalIds |-> "none"]
    /\ bodyModalOpen' = FALSE
    /\ ret' = Ret("hideAllModals", TRUE, <<>>, <<>>, <<modals>>, chatActive)
    /\ UNCHANGED overlays
    /\ PageStill

\* Names showAgentProfile is called with: none, the current-user label, the
\* three agents with a template of their own, another agent, and a spelling
\* of Claude that is not the exact one.
ProfileNames ==
    {<<>>, UserLabel, AgentName, <<"G", "P", "T", "-", "4">>,
     <<"C", "o", "p", "i", "l", "o", "t">>, <<"R", "o", "b">>,
     <<"c", "l", "a", "u", "d", "e">>}

\* Variant that only turns away the missing name.
NoProfile_missingOnly(name) == name = <<>>

\* if (!name || name === "yong hu") return;  (member.js:583)
NoProfile(name) == name = <<>> \/ name = UserLabel

\* profileContent (member.js:586-640): avatar glyph, name and description
ProfileContent(name) ==
    IF name = AgentName
    THEN [avatar |-> <<"C">>, name |-> AgentName, description |-> "anthropic"]
    ELSE IF name = <<"G", "P", "T", "-", "4">>
    THEN [avatar |-> <<"G">>, name |-> <<"G", "P", "T", "-", "4">>,
          description |-> "openai"]
    ELSE IF name = <<"C", "o", "p", "i", "l", "o", "t">>
    THEN [avatar |-> <<"C">>, name |-> <<"C", "o", "p", "i", "l", "o", "t">>,
          description |-> "github"]
    ELSE [avatar |-> CharAt0(name), name |-> name, description |-> "generic"]

\* showAgentProfile(name) (member.js:580-662)
ShowAgentProfile(name) ==
    /\ overlays' = IF NoProfile(name) THEN overlays
                   ELSE Append(overlays, ProfileContent(name))
    /\ ret' = Ret("showAgentProfile", TRUE, name, <<>>, <<>>, chatActive)
    /\ UNCHANGED modalVars
    /\ PageStill

showAgentProfile == \E name \in ProfileNames : ShowAgentProfile(name)

\* A click on overlay i whose target is `target`: the close button's listener
\* and the overlay's own listener (member.js:659-661).
ClickProfile(i, target) ==
    /\ overlays' = IF target \in {"close-profile", "agent-profile-modal"}
                   THEN RemoveAt(overlays, i)
                   ELSE overlays
    /\ ret' = Ret("clickProfile", TRUE, <<target>>, <<>>, <<overlays[i]>>, chatActive)
    /\ UNCHANGED modalVars
    /\ PageStill

clickCloseProfile == \E i \in 1..Len(overlays) : ClickProfile(i, "close-profile")

clickProfileBackground ==
    \E i \in 1..Len(overlays) : ClickProfile(i, "agent-profile-modal")

clickProfileContent ==
    \E i \in 1..Len(overlays) : ClickProfile(i, "agent-profile-content")

(***************************************************************************)
(* UIController: the two side panels (member.js:395-464) and the page's    *)
(* resize listener (part_001:92-114).                                      *)
(***************************************************************************)
\* const isMobile = window.innerWidth <= 768  (member.js:397, 440)
MOBILE_MAX == 768

\* Viewport widths around the breakpoint.
Widths == {MOBILE_MAX - 1, MOBILE_MAX, MOBILE_MAX + 1}

\* The widest of them.
WideWidth == CHOOSE w \in Widths : \A v \in Widths : v <= w

IsMobile(width) == width <= MOBILE_MAX

\* The page as served, at viewport width w: both panels expanded, the
\* sidebar's icon pointing left and the member list's pointing right.
LayoutStart(w) ==
    /\ innerWidth = w
    /\ sidebar = {}
    /\ membersSidebar = {}
    /\ mainContent = {}
    /\ sidebarIcon = {"fa-chevron-left"}
    /\ membersIcon = {"fa-chevron-right"}

\* classList.toggle(name)
ToggleClass(classes, name) ==
    IF name \in classes THEN classes \ {name} ELSE classes \cup {name}

\* icon.classList.remove(gone); icon.classList.add(shown)
SwapClass(classes, gone, shown) == (classes \ {gone}) \cup {shown}

\* What the handlers below leave alone.
PanelsStill ==
    UNCHANGED <<chatVars, notifications, timers, members, formVars, modalVars,
                overlays>>

\* The layout before a handler runs, kept with its result.
Layout ==
    [innerWidth |-> innerWidth, sidebar |-> sidebar,
     membersSidebar |-> membersSidebar, mainContent |-> mainContent,
     sidebarIcon |-> sidebarIcon, membersIcon |-> membersIcon]

\* toggleSidebar() (member.js:395-421)
toggleSidebar ==
    /\ sidebar' = IF IsMobile(innerWidth) THEN ToggleClass(sidebar, "active")
                  ELSE ToggleClass(sidebar, "collapsed")
    /\ mainContent' = IF IsMobile(innerWidth) THEN mainContent
                      ELSE ToggleClass(mainContent, "sidebar-collapsed")
    /\ sidebarIcon' = IF "collapsed" \in sidebar' \/ "active" \in sidebar'
                      THEN SwapClass(sidebarIcon, "fa-chevron-left", "fa-chevron-right")
                      ELSE SwapClass(sidebarIcon, "fa-chevron-right", "fa-chevron-left")
    /\ ret' = Ret("toggleSidebar", TRUE, <<>>, <<>>, <<Layout>>, chatActive)
    /\ UNCHANGED <<innerWidth, membersSidebar, membersIcon>>
    /\ PanelsStill

\* toggleMembers() (member.js:438-464)
toggleMembers ==
    /\ membersSidebar' = IF IsMobile(innerWidth)
                         THEN ToggleClass(membersSidebar, "active")
                         ELSE ToggleClass(membersSidebar, "collapsed")
    /\ mainContent' = IF IsMobile(innerWidth) THEN mainContent
                      ELSE ToggleClass(mainContent, "members-collapsed")
    /\ membersIcon' = IF "collapsed" \in membersSidebar'
                      THEN SwapClass(membersIcon, "fa-chevron-right", "fa-chevron-left")
                      ELSE SwapClass(membersIcon, "fa-chevron-left", "fa-chevron-right")
    /\ ret' = Ret("toggleMembers", TRUE, <<>>, <<>>, <<Layout>>, chatActive)
    /\ UNCHANGED <<innerWidth, sidebar, sidebarIcon>>
    /\ PanelsStill

\* The window is resized to width w and the resize listener runs
\* (part_001:92-114).
Resize(w) ==
    /\ innerWidth' = w
    /\ IF IsMobile(w)
       THEN /\ sidebar' = sidebar \ {"collapsed"}
            /\ membersSidebar' = membersSidebar \ {"collapsed"}
            /\ mainContent' = mainContent \ {"sidebar-collapsed", "members-collapsed"}
       ELSE UNCHANGED <<sidebar, membersSidebar, mainContent>>
    /\ ret' = Ret("resize", TRUE, <<>>, <<>>, <<Layout>>, chatActive)
    /\ UNCHANGED <<sidebarIcon, membersIcon>>
    /\ PanelsStill

resize == \E w \in Widths : w # innerWidth /\ Resize(w)

(***************************************************************************)
(* Specifications.                                                         *)
(***************************************************************************)
Init ==
    /\ chatActive = TRUE
    /\ messages = <<>>
    /\ origin = <<>>
    /\ inputValue = <<>>
    /\ previews = <<>>
    /\ toggleBtn = StaticButton
    /\ exported = <<>>
    /\ notifications = <<>>
    /\ timers = <<>>
    /\ members = <<>>
    /\ ret = Ret("init", TRUE, <<>>, <<>>, <<>>, TRUE)
    /\ nameInput = <<>>
    /\ descInput = <<>>
    /\ validation = NoValidation
    /\ modals = [id \in ModalIds |-> StyleSheetDisplay]
    /\ bodyModalOpen = FALSE
    /\ overlays = <<>>
    /\ LayoutStart(WideWidth)

\* Elements and pending timers on the page: what every specification budgets.
DomSize ==
    Len(messages) + Len(members) + Len(previews) + Len(notifications) + Len(timers)

\* The conversation: sends, messages from outside, replies, toggles.
NextChat ==
    \/ sendMessage /\ DomSize' <= MaxChatDom /\ UNCHANGED dialogVars
    \/ receiveMessage /\ DomSize' <= MaxChatDom /\ UNCHANGED dialogVars
    \/ replyTimer /\ DomSize' <= MaxChatDom /\ UNCHANGED dialogVars
    \/ toggleChatActive /\ DomSize' <= MaxChatDom /\ UNCHANGED dialogVars
    \/ fadeTimer /\ DomSize' <= MaxChatDom /\ UNCHANGED dialogVars
    \/ unnotifyTimer /\ DomSize' <= MaxChatDom /\ UNCHANGED dialogVars

SpecChat == Init /\ [][NextChat]_vars

\* The second between a send and its reply, with room for several toggles.
NextWindow ==
    \/ sendMessage /\ DomSize' <= MaxWindowDom /\ UNCHANGED dialogVars
    \/ replyTimer /\ DomSize' <= MaxWindowDom /\ UNCHANGED dialogVars
    \/ toggleChatActive /\ DomSize' <= MaxWindowDom /\ UNCHANGED dialogVars
    \/ fadeTimer /\ DomSize' <= MaxWindowDom /\ UNCHANGED dialogVars
    \/ unnotifyTimer /\ DomSize' <= MaxWindowDom /\ UNCHANGED dialogVars

SpecWindow == Init /\ [][NextWindow]_vars

\* The input area: typing, attaching, sending, with the chat on or off.
NextCompose ==
    \/ typeInput /\ DomSize' <= MaxComposeDom /\ UNCHANGED dialogVars
    \/ handleFileUpload /\ DomSize' <= MaxComposeDom /\ UNCHANGED dialogVars
    \/ handlePastedImage /\ DomSize' <= MaxComposeDom /\ UNCHANGED dialogVars
    \/ sendMessage /\ DomSize' <= MaxComposeDom /\ UNCHANGED dialogVars
    \/ replyTimer /\ DomSize' <= MaxComposeDom /\ UNCHANGED dialogVars
    \/ toggleChatActive /\ DomSize' <= MaxComposeDom /\ UNCHANGED dialogVars
    \/ fadeTimer /\ DomSize' <= MaxComposeDom /\ UNCHANGED dialogVars
    \/ unnotifyTimer /\ DomSize' <= MaxComposeDom /\ UNCHANGED dialogVars

SpecCompose == Init /\ [][NextCompose]_vars

\* Markup in message text, typed or received.
NextMarkup ==
    \/ sendMarkup /\ DomSize' <= MaxMarkupDom /\ UNCHANGED dialogVars
    \/ receiveMarkup /\ DomSize' <= MaxMarkupDom /\ UNCHANGED dialogVars
    \/ replyTimer /\ DomSize' <= MaxMarkupDom /\ UNCHANGED dialogVars

SpecMarkup == Init /\ [][NextMarkup]_vars

\* The modals and the agent-profile overlay.
NextDialogs ==
    \/ showModal
    \/ hideModal
    \/ hideAllModals
    \/ showAgentProfile /\ Len(overlays') <= MaxOverlays
    \/ clickCloseProfile
    \/ clickProfileBackground
    \/ clickProfileContent

SpecDialogs == Init /\ [][NextDialogs]_vars

\* Elements and timers on the page once the pending removal timers have run:
\* a removal timer takes itself and its row away and brings a notification
\* and that notification's timer.
Settled == DomSize + Len(SelectSeq(timers, LAMBDA t : t.kind = "detach"))

\* The member list's notifications with a browser that runs every due timer:
\* only the calls from outside are budgeted, a registered timer always runs.
NextNotify ==
    \/ addMember /\ Settled' <= MaxNotifyDom /\ UNCHANGED dialogVars
    \/ removeMember /\ Settled' <= MaxNotifyDom /\ UNCHANGED dialogVars
    \/ detachTimer /\ UNCHANGED dialogVars
    \/ fadeTimer /\ UNCHANGED dialogVars
    \/ unnotifyTimer /\ UNCHANGED dialogVars

\* setTimeout callbacks are run by the event loop once due, for as long as the
\* page stays open: weak fairness for each kind of timer.
SpecNotify ==
    /\ Init
    /\ [][NextNotify]_vars
    /\ WF_vars(detachTimer /\ UNCHANGED dialogVars)
    /\ WF_vars(fadeTimer /\ UNCHANGED dialogVars)
    /\ WF_vars(unnotifyTimer /\ UNCHANGED dialogVars)

\* Additions and removals of members close enough for their timers to overlap.
NextRemoval ==
    \/ addMember /\ DomSize' <= MaxRemovalDom /\ UNCHANGED dialogVars
    \/ removeMember /\ DomSize' <= MaxRemovalDom /\ UNCHANGED dialogVars
    \/ detachTimer /\ DomSize' <= MaxRemovalDom /\ UNCHANGED dialogVars
    \/ fadeTimer /\ DomSize' <= MaxRemovalDom /\ UNCHANGED dialogVars
    \/ unnotifyTimer /\ DomSize' <= MaxRemovalDom /\ UNCHANGED dialogVars

SpecRemoval == Init /\ [][NextRemoval]_vars

\* The panels: the page is opened at any width, then toggles and resizes.
InitLayout ==
    /\ chatActive = TRUE
    /\ messages = <<>>
    /\ origin = <<>>
    /\ inputValue = <<>>
    /\ previews = <<>>
    /\ toggleBtn = StaticButton
    /\ exported = <<>>
    /\ notifications = <<>>
    /\ timers = <<>>
    /\ members = <<>>
    /\ ret = Ret("init", TRUE, <<>>, <<>>, <<>>, TRUE)
    /\ nameInput = <<>>
    /\ descInput = <<>>
    /\ validation = NoValidation
    /\ modals = [id \in ModalIds |-> StyleSheetDisplay]
    /\ bodyModalOpen = FALSE
    /\ overlays = <<>>
    /\ \E w \in Widths : LayoutStart(w)

NextLayout ==
    \/ toggleSidebar
    \/ toggleMembers
    \/ resize

SpecLayout == InitLayout /\ [][NextLayout]_vars

\* The member list with status updates of any kind.
NextStatus ==
    \/ addMember /\ DomSize' <= MaxStatusDom /\ UNCHANGED dialogVars
    \/ removeMember /\ DomSize' <= MaxStatusDom /\ UNCHANGED dialogVars
    \/ detachTimer /\ DomSize' <= MaxStatusDom /\ UNCHANGED dialogVars
    \/ updateMemberStatusAny /\ DomSize' <= MaxStatusDom /\ UNCHANGED dialogVars
    \/ fadeTimer /\ DomSize' <= MaxStatusDom /\ UNCHANGED dialogVars
    \/ unnotifyTimer /\ DomSize' <= MaxStatusDom /\ UNCHANGED dialogVars

SpecStatus == Init /\ [][NextStatus]_vars

\* Files of every kind picked and their previews removed again.
NextIcon ==
    \/ uploadAnyFile /\ Len(previews') <= MaxIconPreviews /\ UNCHANGED dialogVars
    \/ removePreview /\ UNCHANGED dialogVars

SpecIcon == Init /\ [][NextIcon]_vars

\* The input area as the user drives it: typing, attaching, pasting and the
\* send button.
NextButton ==
    \/ typeInput /\ DomSize' <= MaxButtonDom /\ UNCHANGED dialogVars
    \/ handleFileUpload /\ DomSize' <= MaxButtonDom /\ UNCHANGED dialogVars
    \/ handlePastedImage /\ DomSize' <= MaxButtonDom /\ UNCHANGED dialogVars
    \/ clickSend /\ DomSize' <= MaxButtonDom /\ UNCHANGED dialogVars
    \/ replyTimer /\ DomSize' <= MaxButtonDom /\ UNCHANGED dialogVars
    \/ toggleChatActive /\ DomSize' <= MaxButtonDom /\ UNCHANGED dialogVars
    \/ fadeTimer /\ DomSize' <= MaxButtonDom /\ UNCHANGED dialogVars
    \/ unnotifyTimer /\ DomSize' <= MaxButtonDom /\ UNCHANGED dialogVars

SpecButton == Init /\ [][NextButton]_vars

\* The member list.
NextMember ==
    \/ addMember /\ DomSize' <= MaxMemberDom /\ UNCHANGED dialogVars
    \/ removeMember /\ DomSize' <= MaxMemberDom /\ UNCHANGED dialogVars
    \/ detachTimer /\ DomSize' <= MaxMemberDom /\ UNCHANGED dialogVars
    \/ updateMemberStatus /\ DomSize' <= MaxMemberDom /\ UNCHANGED dialogVars
    \/ fadeTimer /\ DomSize' <= MaxMemberDom /\ UNCHANGED dialogVars
    \/ unnotifyTimer /\ DomSize' <= MaxMemberDom /\ UNCHANGED dialogVars

SpecMember == Init /\ [][NextMember]_vars

\* The page: conversation, export and member list side by side.
NextPage ==
    \/ sendMessage /\ DomSize' <= MaxPageDom /\ UNCHANGED dialogVars
    \/ receiveMessage /\ DomSize' <= MaxPageDom /\ UNCHANGED dialogVars
    \/ replyTimer /\ DomSize' <= MaxPageDom /\ UNCHANGED dialogVars
    \/ toggleChatActive /\ DomSize' <= MaxPageDom /\ UNCHANGED dialogVars
    \/ exportChatHistory /\ DomSize' <= MaxPageDom /\ UNCHANGED dialogVars
    \/ revokeTimer /\ DomSize' <= MaxPageDom /\ UNCHANGED dialogVars
    \/ addMember /\ DomSize' <= MaxPageDom /\ UNCHANGED dialogVars
    \/ removeMember /\ DomSize' <= MaxPageDom /\ UNCHANGED dialogVars
    \/ detachTimer /\ DomSize' <= MaxPageDom /\ UNCHANGED dialogVars
    \/ updateMemberStatus /\ DomSize' <= MaxPageDom /\ UNCHANGED dialogVars
    \/ fadeTimer /\ DomSize' <= MaxPageDom /\ UNCHANGED dialogVars
    \/ unnotifyTimer /\ DomSize' <= MaxPageDom /\ UNCHANGED dialogVars

SpecPage == Init /\ [][NextPage]_vars

\* Transcripts as they stand rendered when the export runs.
SampleMessages ==
    ExternalMessages
      \cup {UserMessage(<<"h">>, <<>>, "09:00"),
            UserMessage(<<" ">>, <<FilePdf, FileImg>>, "09:01"),
            CannedReply("09:01")}

Rendered == {CreateMessageElement(m) : m \in SampleMessages}

Transcripts ==
    UNION {[1..n -> Rendered] : n \in 0..MaxTranscript}

InitExport ==
    /\ chatActive = TRUE
    /\ messages \in Transcripts
    /\ origin = [i \in 1..Len(messages) |-> [op |-> "static", id |-> 0]]
    /\ inputValue = <<>>
    /\ previews = <<>>
    /\ toggleBtn = StaticButton
    /\ exported = <<>>
    /\ notifications = <<>>
    /\ timers = <<>>
    /\ members = <<>>
    /\ ret = Ret("init", TRUE, <<>>, <<>>, <<>>, TRUE)
    /\ nameInput = <<>>
    /\ descInput = <<>>
    /\ validation = NoValidation
    /\ modals = [id \in ModalIds |-> StyleSheetDisplay]
    /\ bodyModalOpen = FALSE
    /\ overlays = <<>>
    /\ LayoutStart(WideWidth)

NextExport ==
    \/ exportChatHistory /\ Len(notifications') <= MaxExportNotifs
                         /\ UNCHANGED dialogVars
    \/ revokeTimer /\ UNCHANGED dialogVars
    \/ fadeTimer /\ UNCHANGED dialogVars
    \/ unnotifyTimer /\ UNCHANGED dialogVars

SpecExport == InitExport /\ [][NextExport]_vars

\* The validators, applied to names and descriptions of every shape.
InitValidator ==
    /\ chatActive = TRUE
    /\ messages = <<>>
    /\ origin = <<>>
    /\ inputValue = <<>>
    /\ previews = <<>>
    /\ toggleBtn = StaticButton
    /\ exported = <<>>
    /\ notifications = <<>>
    /\ timers = <<>>
    /\ members = <<>>
    /\ ret = Ret("init", TRUE, <<>>, <<>>, <<>>, TRUE)
    /\ \/ nameInput \in Names /\ descInput \in CornerDescs
       \/ nameInput \in CornerNames /\ descInput \in Descs
    /\ validation = NoValidation
    /\ modals = [id \in ModalIds |-> StyleSheetDisplay]
    /\ bodyModalOpen = FALSE
    /\ overlays = <<>>
    /\ LayoutStart(WideWidth)

NextValidator ==
    \/ validateGroupName
    \/ validateGroupDesc
    \/ validateCreateChatForm
    \/ validateSettingsForm

SpecValidator == InitValidator /\ [][NextValidator]_vars

(***************************************************************************)
(* Vocabulary of the properties.                                           *)
(***************************************************************************)
\* Nothing but white space, which is what trim() reduces to the empty string.
IsBlank(s) == \A i \in 1..Len(s) : IsSpace(s[i])

Last(s) == s[Len(s)]

\* The step just taken ran handler `op`: every handler leaves its name in ret.
Ran(op) == ret'.op = op

\* The reply timer that fires next: reply timers share one delay, so the
\* browser runs them in registration order.
FirstReply ==
    timers[CHOOSE i \in ReplyIndices(timers) : \A j \in ReplyIndices(timers) : i <= j]

ReplyTimersOf(tm) == SelectSeq(tm, LAMBDA t : t.kind = "reply")
DetachTimersOf(tm) == SelectSeq(tm, LAMBDA t : t.kind = "detach")

SendsFor(id) == {i \in 1..Len(origin) : origin[i] = [op |-> "send", id |-> id]}
RepliesFor(id) == {i \in 1..Len(origin) : origin[i] = [op |-> "reply", id |-> id]}
PendingFor(id) == {i \in ReplyIndices(timers) : timers[i].ref = id}

\* Every send has one user message, at most one reply rendered or pending, and
\* the reply stands after the user message; no reply belongs to anything else.
OneReplyPerSend ==
    /\ \A id \in 1..NumSends :
          /\ Cardinality(SendsFor(id)) = 1
          /\ Cardinality(RepliesFor(id)) + Cardinality(PendingFor(id)) <= 1
          /\ \A r \in RepliesFor(id) : \E u \in SendsFor(id) : u < r
    /\ \A i \in 1..Len(origin) :
          origin[i].op = "reply" => origin[i].id \in 1..NumSends
    /\ \A i \in ReplyIndices(timers) : timers[i].ref \in 1..NumSends

IsPrefix(a, b) == Len(a) <= Len(b) /\ SubSeq(b, 1, Len(a)) = a

(***************************************************************************)
(* C1.  A sendMessage with non-empty text while the chat is active appends *)
(* exactly one user message (sender "yong hu", user layout) to the end of  *)
(* the list and returns true; when its reply timer fires with the chat     *)
(* active, exactly one agent message (sender Claude, the canned text) is   *)
(* appended; and nothing else is ever appended for that send.              *)
(***************************************************************************)
C1_SendStep ==
    (Ran("sendMessage") /\ chatActive /\ ~IsBlank(ret'.text)) =>
        /\ ret'.value = TRUE
        /\ Len(messages') = Len(messages) + 1
        /\ IsPrefix(messages, messages')
        /\ Last(messages').sender = UserLabel
        /\ Last(messages').class = "user-message"
        /\ Last(messages').text = ret'.text
        /\ Last(origin') = [op |-> "send", id |-> NumSends + 1]
        /\ Len(ReplyTimersOf(timers')) = Len(ReplyTimersOf(timers)) + 1
        /\ Last(ReplyTimersOf(timers')).ref = NumSends + 1

C1_ReplyStep ==
    (Ran("replyTimer") /\ chatActive) =>
        /\ ret'.value = TRUE
        /\ Len(messages') = Len(messages) + 1
        /\ IsPrefix(messages, messages')
        /\ Last(messages').sender = AgentName
        /\ Last(messages').text = CannedText
        /\ Last(messages').class = "agent-message"
        /\ Last(origin') = [op |-> "reply", id |-> FirstReply.ref]
        /\ ReplyTimersOf(timers') = Tail(ReplyTimersOf(timers))

C1_SendThenOneReply ==
    [][C1_SendStep /\ C1_ReplyStep /\ OneReplyPerSend']_vars

\* The reply of send 1 has just been rendered behind its user message.
C1_Witness ==
    /\ ret.op = "replyTimer" /\ ret.value = TRUE
    /\ Len(messages) = 2
    /\ origin = <<[op |-> "send", id |-> 1], [op |-> "reply", id |-> 1]>>
    /\ messages[1].text = <<"h">>
    /\ ReplyIndices(timers) = {}

(***************************************************************************)
(* C2.  As claimed: whenever toggleChatActive was called at least once     *)
(* between a send and the firing of its reply timer, the reply is dropped. *)
(***************************************************************************)
C2_AnyToggleDrops ==
    [][(Ran("replyTimer") /\ FirstReply.toggled # 0) => messages' = messages]_vars

\* C2 as amended: the reply is dropped exactly when the chat is inactive at the
\* moment the timer fires, which is after an odd number of toggles in the
\* window; after an even number the chat is active again and the reply is
\* rendered.
C2_InactiveAtFireDrops ==
    [][Ran("replyTimer") =>
          /\ (messages' = messages) <=> ~chatActive
          /\ (messages' = messages) <=> (FirstReply.toggled = 1)
          /\ ret'.value = chatActive
          /\ messages' # messages => Len(messages') = Len(messages) + 1]_vars

\* A reply has just been dropped: its user message is the whole transcript.
C2_Witness ==
    /\ ret.op = "replyTimer" /\ ret.value = FALSE
    /\ ~chatActive
    /\ Len(messages) = 1 /\ origin[1].op = "send"
    /\ ReplyIndices(timers) = {}

(***************************************************************************)
(* C3.  sendMessage while the chat is inactive returns false for any text  *)
(* and attachments, appends nothing, leaves the input and the previews as  *)
(* they are and registers no reply timer, so no reply ever belongs to it.  *)
(***************************************************************************)
C3_InactiveSendRejected ==
    [][/\ (Ran("sendMessage") /\ ~chatActive) =>
             /\ ret'.value = FALSE
             /\ UNCHANGED <<messages, origin, inputValue, previews, chatActive>>
             /\ ReplyTimersOf(timers') = ReplyTimersOf(timers)
       /\ OneReplyPerSend']_vars

\* Rejected with text and attachments given, the input and a preview untouched.
C3_Witness ==
    /\ ret.op = "sendMessage" /\ ret.value = FALSE /\ ret.pre = FALSE
    /\ ~IsBlank(ret.text) /\ ret.atts # <<>>
    /\ inputValue # <<>> /\ previews # <<>>

(***************************************************************************)
(* C4.  sendMessage while active with text that trims to nothing: with no  *)
(* attachment it returns false and leaves the list, the input, the flag    *)
(* and the reply timers alone; with an attachment it succeeds.             *)
(***************************************************************************)
C4_BlankSend ==
    [][(Ran("sendMessage") /\ chatActive /\ IsBlank(ret'.text)) =>
          IF ret'.atts = <<>>
          THEN /\ ret'.value = FALSE
               /\ UNCHANGED <<messages, origin, inputValue, chatActive>>
               /\ ReplyTimersOf(timers') = ReplyTimersOf(timers)
          ELSE /\ ret'.value = TRUE
               /\ Len(messages') = Len(messages) + 1
               /\ Last(messages').attachment # <<>>]_vars

\* A whitespace-only send was rejected while active, the typed input kept.
C4_Witness ==
    /\ ret.op = "sendMessage" /\ ret.value = FALSE /\ ret.pre = TRUE
    /\ ret.text = <<" ">> /\ ret.atts = <<>>
    /\ inputValue # <<>>
    /\ messages = <<>>

(***************************************************************************)
(* C5.  receiveMessage while inactive returns false and renders nothing,   *)
(* and keeps nothing for later: a message handed to receiveMessage is only *)
(* ever rendered by a receiveMessage call made with it while active.       *)
(***************************************************************************)
C5_InactiveReceiveLost ==
    [][/\ (Ran("receiveMessage") /\ ~chatActive) =>
             /\ ret'.value = FALSE
             /\ UNCHANGED <<messages, origin, timers, notifications, inputValue>>
       /\ IsPrefix(messages, messages')
       /\ Len(messages') <= Len(messages) + 1
       /\ \A m \in ExternalMessages :
             (messages' # messages /\ Last(messages') = CreateMessageElement(m)) =>
                 /\ Ran("receiveMessage")
                 /\ chatActive
                 /\ ret'.msg = <<m>>]_vars

\* A message was refused while inactive and the transcript stayed empty.
C5_Witness ==
    /\ ret.op = "receiveMessage" /\ ret.value = FALSE
    /\ ~chatActive
    /\ messages = <<>>

(***************************************************************************)
(* C6.  chatActive is true initially and only toggleChatActive changes it: *)
(* no send, receive, export or timer callback does.                        *)
(***************************************************************************)
C6_OnlyToggleChangesFlag ==
    /\ chatActive = TRUE
    /\ [][chatActive' # chatActive => Ran("toggleChatActive")]_vars

\* A member-removal timer has fired with the chat still as it was switched.
C6_Witness ==
    /\ ret.op = "detachTimer"
    /\ ~chatActive
    /\ toggleBtn = ButtonFor(FALSE)

(***************************************************************************)
(* C7.  toggleChatActive flips the flag and returns the new value; a       *)
(* second call right after restores the value before the first; after      *)
(* every call the button shows the slash icon and "guan bi liao tian" when *)
(* active, the plain icon and "kai qi liao tian" when inactive.            *)
(***************************************************************************)
C7_ToggleFlipsAndShows ==
    [][Ran("toggleChatActive") =>
          /\ chatActive' = ~chatActive
          /\ ret'.value = chatActive'
          /\ ret.op = "toggleChatActive" => chatActive' = ret.pre
          /\ chatActive' =>
                toggleBtn' = [icon |-> "fa-comment-slash",
                              title |-> <<"GUAN", "BI", "LIAO", "TIAN">>]
          /\ ~chatActive' =>
                toggleBtn' = [icon |-> "fa-comment",
                              title |-> <<"KAI", "QI", "LIAO", "TIAN">>]]_vars

\* Two toggles in a row: both notifications are still on the page.
C7_Witness ==
    /\ ret.op = "toggleChatActive" /\ ret.value = TRUE /\ ret.pre = FALSE
    /\ chatActive
    /\ Len(notifications) = 2
    /\ notifications[1].message = "chat-closed" /\ ~notifications[1].fadeOut
    /\ notifications[2].message = "chat-opened"
    /\ toggleBtn.icon = "fa-comment-slash"

(***************************************************************************)
(* C8.  Member ids stay unique under any interleaving of addMember,        *)
(* removeMember, updateMemberStatus and removal timers; addMember with a   *)
(* rendered id returns false and leaves the list as it is.                 *)
(***************************************************************************)
UniqueIds ==
    \A i, j \in 1..Len(members) : members[i].id = members[j].id => i = j

C8_UniqueMemberIds ==
    [][/\ UniqueIds'
       /\ (Ran("addMember") /\ FindMember(members, ret'.msg[1].id) # 0) =>
             /\ ret'.value = FALSE
             /\ members' = members
       /\ (Ran("addMember") /\ FindMember(members, ret'.msg[1].id) = 0) =>
             /\ ret'.value = TRUE
             /\ Len(members') = Len(members) + 1
             /\ Last(members').id = ret'.msg[1].id]_vars

\* Bob was refused under the id Ann's row holds.
C8_Witness ==
    /\ ret.op = "addMember" /\ ret.value = FALSE
    /\ ret.msg[1].name = <<"B", "o", "b">>
    /\ Cardinality({i \in 1..Len(members) : members[i].id = ret.msg[1].id}) = 1
    /\ members[FindMember(members, ret.msg[1].id)].name = <<"A", "n", "n">>

(***************************************************************************)
(* C9.  removeMember on an id with no row returns false, changes no row    *)
(* and registers no removal; on a rendered id it returns true with the row *)
(* still listed, marked deleting; a row leaves the list only when a        *)
(* removal timer for it fires, and when the timer has fired the row is     *)
(* gone.                                                                   *)
(***************************************************************************)
Nodes(rows) == {rows[i].node : i \in 1..Len(rows)}

\* The removal timer that fires next (they share one delay).
FirstDetach ==
    timers[CHOOSE i \in 1..Len(timers) :
              /\ timers[i].kind = "detach"
              /\ \A j \in 1..(i - 1) : timers[j].kind # "detach"]

C10_ExportVerbatim ==
    exported # <<>> =>
        /\ Len(exported[1].sections) = Len(messages)
        /\ \A i \in 1..Len(messages) :
              exported[1].sections[i] =
                  [sender |-> messages[i].sender,
                   time |-> messages[i].time,
                   text |-> messages[i].text]

(***************************************************************************)
(* C11.  As claimed: after every successful sendMessage the message input  *)
(* is empty and no attachment preview is left before the input, whether    *)
(* handleFileUpload or handlePastedImage put it there.                     *)
(***************************************************************************)
C11_SendClearsCompose ==
    (ret.op = "sendMessage" /\ ret.value = TRUE) =>
        /\ inputValue = <<>>
        /\ previews = <<>>

(***************************************************************************)
(* C12.  As claimed: validateGroupName(s) is valid when s is one or more   *)
(* characters of [A-Za-z0-9_], invalid with the empty-name message when s  *)
(* is empty or only white space, and invalid with the invalid-characters   *)
(* message for every other string.                                         *)
(***************************************************************************)
IsBlankUnits(s) == \A i \in 1..Len(s) : IsSpaceUnit(s[i])

ChineseIn(d) == Cardinality({i \in 1..Len(d) : d[i] >= 19968 /\ d[i] <= 40869})

C13_DescRule ==
    validation.op = "validateGroupDesc" =>
        /\ validation.result.isValid =
              (ChineseIn(descInput) <= 10 /\ Len(descInput) - ChineseIn(descInput) <= 30)
        /\ ~validation.result.isValid => validation.result.message = TooLongMessage
        /\ descInput = <<>> => validation.result = Valid

\* Ten Chinese and thirty other characters were found valid together.
C13_Witness ==
    /\ validation.op = "validateGroupDesc"
    /\ validation.result = Valid
    /\ ChineseIn(descInput) = 10
    /\ Len(descInput) = 40

(***************************************************************************)
(* C14.  Both composite validators trim the two values, answer with the    *)
(* name's failure if the name fails (also when the description fails       *)
(* too), else with the description's failure, and with {isValid: true}     *)
(* exactly when both pass; the two give the same answer on the same pair.  *)
(***************************************************************************)
C14_NameThenDesc ==
    validation.op \in {"validateCreateChatForm", "validateSettingsForm"} =>
        LET onName == ValidateGroupName(TrimUnits(nameInput))
            onDesc == ValidateGroupDesc(TrimUnits(descInput))
        IN  /\ ~onName.isValid => validation.result = onName
            /\ (onName.isValid /\ ~onDesc.isValid) => validation.result = onDesc
            /\ (validation.result = Valid) = (onName.isValid /\ onDesc.isValid)
            /\ ValidateCreateChatForm(nameInput, descInput)
                  = ValidateSettingsForm(nameInput, descInput)

\* A blank name beside an over-long description: the settings form answers
\* with the empty-name message.
C14_Witness ==
    /\ validation.op = "validateSettingsForm"
    /\ nameInput = <<32>>
    /\ ~ValidateGroupDesc(TrimUnits(descInput)).isValid
    /\ validation.result = Invalid(EmptyNameMessage)

(***************************************************************************)
(* C15.  A message's text is rendered as rich content only when its        *)
(* markdown flag is true.  The messages sendMessage builds and the canned  *)
(* replies carry no such flag: in either layout their text is inserted as  *)
(* plain text and none of its markup becomes an element.                   *)
(***************************************************************************)
C15_TypedTextStaysPlain ==
    [][/\ \A i \in 1..Len(messages') :
             /\ origin'[i].op \in {"send", "reply"} =>
                   /\ ~messages'[i].rich
                   /\ ChildTags(messages'[i]) = <<>>
             /\ messages'[i].rich => origin'[i].op = "recv"
       /\ (Ran("receiveMessage") /\ ret'.value = TRUE) =>
             Last(messages').rich = ret'.msg[1].markdown
       /\ (Ran("sendMessage") /\ ret'.value = TRUE) =>
             /\ Last(messages').text = ret'.text
             /\ ~Last(messages').rich]_vars

\* Typed markup stands as plain text beside a received message rendered rich
\* in the agent layout.
C15_Witness ==
    /\ Len(messages) = 2
    /\ origin[1].op = "recv"
    /\ messages[1].rich /\ messages[1].class = "agent-message"
    /\ ChildTags(messages[1]) = <<"<b>", "</b>">>
    /\ origin[2].op = "send"
    /\ messages[2].text = <<"<b>", "h", "</b>">>
    /\ ~messages[2].rich

\* Whether the modal is on screen.
Displayed(id) == modals[id] = "flex"

\* C16: showModal(id) displays the named modal and marks the body modal-open;
\* hideModal(id) hides the named modal and clears the mark; neither touches
\* another modal; hideAllModals(), from any state, leaves every modal hidden
\* and the mark cleared.
C16_ModalSteps ==
    [][/\ Ran("showModal") =>
            /\ \A id \in ModalIds :
                   modals'[id] = IF <<id>> = ret'.text THEN "flex" ELSE modals[id]
            /\ bodyModalOpen'
       /\ Ran("hideModal") =>
            /\ \A id \in ModalIds :
                   modals'[id] = IF <<id>> = ret'.text THEN "none" ELSE modals[id]
            /\ ~bodyModalOpen'
       /\ Ran("hideAllModals") =>
            /\ \A id \in ModalIds : modals'[id] = "none"
            /\ ~bodyModalOpen'
       /\ ret'.op \in {"showModal", "hideModal", "hideAllModals"} =>
            ret'.msg = <<modals>>]_vars

\* Both modals were displayed and hideAllModals hid them and cleared the mark.
C16_Witness ==
    /\ ret.op = "hideAllModals"
    /\ ret.msg = <<[id \in ModalIds |-> "flex"]>>
    /\ \A id \in ModalIds : ~Displayed(id)
    /\ ~bodyModalOpen

\* Whether `s` with its element at position i taken out is `t`.
TakenOut(s, i, t) ==
    /\ Len(t) = Len(s) - 1
    /\ \A j \in 1..Len(t) : t[j] = IF j < i THEN s[j] ELSE s[j + 1]

\* C18: showAgentProfile(name) creates no overlay when name is empty or the
\* current-user label; for Claude, GPT-4 and Copilot, matched exactly, the
\* overlay shows that agent's own template; for every other name it shows the
\* generic template with the name and its first character as avatar glyph; a
\* click on the close button or on the overlay background removes that
\* overlay, a click inside the content panel removes nothing.
C18_ProfileSteps ==
    [][/\ Ran("showAgentProfile") =>
            LET name == ret'.text
                shown == Last(overlays')
            IN  IF name = <<>> \/ name = <<"YONG", "HU">>
                THEN overlays' = overlays
                ELSE /\ Len(overlays') = Len(overlays) + 1
                     /\ IsPrefix(overlays, overlays')
                     /\ name = <<"C", "l", "a", "u", "d", "e">> =>
                            /\ shown.description = "anthropic"
                            /\ shown.avatar = <<"C">> /\ shown.name = name
                     /\ name = <<"G", "P", "T", "-", "4">> =>
                            /\ shown.description = "openai"
                            /\ shown.avatar = <<"G">> /\ shown.name = name
                     /\ name = <<"C", "o", "p", "i", "l", "o", "t">> =>
                            /\ shown.description = "github"
                            /\ shown.avatar = <<"C">> /\ shown.name = name
                     /\ name \notin {<<"C", "l", "a", "u", "d", "e">>,
                                     <<"G", "P", "T", "-", "4">>,
                                     <<"C", "o", "p", "i", "l", "o", "t">>} =>
                            /\ shown.description = "generic"
                            /\ shown.avatar = <<name[1]>> /\ shown.name = name
       /\ Ran("clickProfile") =>
            IF ret'.text = <<"agent-profile-content">>
            THEN overlays' = overlays
            ELSE \E i \in 1..Len(overlays) :
                     /\ ret'.msg = <<overlays[i]>>
                     /\ TakenOut(overlays, i, overlays')
       /\ overlays' # overlays => Ran("showAgentProfile") \/ Ran("clickProfile")]_vars

\* The generic overlay of another agent was shown with that agent's initial
\* and a click on the overlay background removed it.
C18_Witness ==
    /\ ret.op = "clickProfile"
    /\ ret.text = <<"agent-profile-modal">>
    /\ ret.msg = <<[avatar |-> <<"R">>, name |-> <<"R", "o", "b">>,
                    description |-> "generic"]>>
    /\ overlays = <<>>

\* Names a notification element can have under SpecNotify.
NotificationNodes == 1..(MaxNotifyDom + 1)

\* Whether the element named n is in the list.
Present(list, n) == \E i \in 1..Len(list) : list[i].node = n

\* Whether the notification named n carries the fade-out mark.
Faded(list, n) == \E i \in 1..Len(list) : list[i].node = n /\ list[i].fadeOut

\* Whether a timer of that kind and delay is pending for the element named n.
Pending(tm, kind, delay, n) ==
    \E i \in 1..Len(tm) : tm[i].kind = kind /\ tm[i].delay = delay /\ tm[i].ref = n

\* C17: a notification is appended in the step of the call that creates it,
\* after those already on screen, which all stay; it gets the fade-out mark
\* exactly when its own 3000 ms timer fires and leaves exactly when the 500 ms
\* timer that follows fires; nothing takes a pending timer of a notification
\* away but its firing; and every notification is eventually removed.
C17_NotificationLife ==
    /\ [][/\ Ran("addMember") => Len(notifications') = Len(notifications) + 1
          /\ \A n \in NotificationNodes :
               /\ (~Present(notifications, n) /\ Present(notifications', n)) =>
                     /\ notifications' = Append(notifications, Last(notifications'))
                     /\ Last(notifications').node = n
                     /\ ~Last(notifications').fadeOut
                     /\ Pending(timers', "fade", 3000, n)
               /\ (Present(notifications', n) /\ Faded(notifications, n)) =>
                     Faded(notifications', n)
               /\ (Present(notifications, n) /\ ~Faded(notifications, n)
                      /\ Faded(notifications', n)) =>
                     /\ Ran("fadeTimer")
                     /\ Pending(timers, "fade", 3000, n)
                     /\ ~Pending(timers', "fade", 3000, n)
                     /\ Pending(timers', "unnotify", 500, n)
               /\ (Present(notifications, n) /\ ~Present(notifications', n)) =>
                     /\ Ran("unnotifyTimer")
                     /\ Faded(notifications, n)
                     /\ Pending(timers, "unnotify", 500, n)
                     /\ ~Pending(timers', "unnotify", 500, n)
               /\ (Pending(timers, "fade", 3000, n)
                      /\ ~Pending(timers', "fade", 3000, n)) =>
                     Ran("fadeTimer") /\ Faded(notifications', n)
               /\ (Pending(timers, "unnotify", 500, n)
                      /\ ~Pending(timers', "unnotify", 500, n)) =>
                     Ran("unnotifyTimer") /\ ~Present(notifications', n)]_vars
    /\ \A n \in NotificationNodes :
           Present(notifications, n) ~> ~Present(notifications, n)

\* Two notifications on screen at the same time, the 3000 ms timer of the
\* older one has fired and that of the newer one has not.
C17_Witness ==
    /\ Len(notifications) = 2
    /\ notifications[1].fadeOut
    /\ Pending(timers, "unnotify", 500, notifications[1].node)
    /\ ~notifications[2].fadeOut
    /\ Pending(timers, "fade", 3000, notifications[2].node)

\* C19: every successful sendMessage registers one reply timer of 1000 ms,
\* whatever it sent, and a rejected one registers none; when the timer fires
\* the canned reply is appended exactly when the chat is active at that
\* moment, whatever the flag was in between: after a single toggle in the
\* window (off, and no further toggle) the reply is dropped, after a toggle
\* off and back on it is rendered.  The timer is gone either way.
C19_FlagAtFireDecides ==
    [][/\ Ran("sendMessage") =>
            IF ret'.value
            THEN /\ ReplyTimersOf(timers') =
                        Append(ReplyTimersOf(timers), Last(timers'))
                 /\ Last(timers').kind = "reply" /\ Last(timers').delay = 1000
                 /\ Last(timers').ref = Last(origin').id
            ELSE ReplyTimersOf(timers') = ReplyTimersOf(timers)
       /\ Ran("replyTimer") =>
            LET fired == ret'.atts[1] IN
            /\ fired = FirstReply
            /\ Len(ReplyTimersOf(timers')) = Len(ReplyTimersOf(timers)) - 1
            /\ IF chatActive
               THEN /\ Len(messages') = Len(messages) + 1
                    /\ IsPrefix(messages, messages')
                    /\ Last(messages').class = "agent-message"
                    /\ Last(origin') = [op |-> "reply", id |-> fired.ref]
               ELSE messages' = messages /\ origin' = origin
            /\ fired.toggled = 1 => messages' = messages
            /\ chatActive' = chatActive]_vars

\* The chat was closed and opened again while a reply was pending, and the
\* reply was rendered when its timer fired.
C19_Witness ==
    /\ ret.op = "replyTimer" /\ ret.value = TRUE
    /\ ret.atts[1].toggled = 2
    /\ chatActive
    /\ Last(origin) = [op |-> "reply", id |-> ret.atts[1].ref]
    /\ Last(messages).class = "agent-message"

\* Whether a row with that id is rendered.
RowRendered(rows, id) == \E k \in 1..Len(rows) : rows[k].id = id

\* A removal of member `id` is pending: removeMember(id) returned true and
\* its timer has not fired.
RemovalPending(id) ==
    \E i \in 1..Len(timers) : timers[i].kind = "detach" /\ timers[i].id = id

\* A removal of member `id` is pending and the row it marked is still rendered.
RowRemovalPending(id) ==
    \E i \in 1..Len(timers) :
        /\ timers[i].kind = "detach" /\ timers[i].id = id
        /\ Present(members, timers[i].ref)

\* C20 as stated: while a removal of member X is pending, addMember with id X
\* returns false and leaves the pending removals as they are, and after the
\* removal's timer fires no row with id X exists.
C20_PendingRemovalBlocksAdd ==
    [][/\ (Ran("addMember") /\ RemovalPending(ret'.msg[1].id)) =>
             /\ ret'.value = FALSE
             /\ members' = members
             /\ DetachTimersOf(timers') = DetachTimersOf(timers)
       /\ Ran("detachTimer") => ~RowRendered(members', FirstDetach.id)]_vars

\* C20 as amended: the add is rejected and lost while the row that the pending
\* removal marked is still rendered; when that removal's timer fires no row
\* with id X exists.  (After two removeMember(X) within 300 ms the second
\* timer is pending with the row already detached: addMember(X) then
\* succeeds and its row outlives that timer.)
C20_PendingRowBlocksAdd ==
    [][/\ (Ran("addMember") /\ RowRemovalPending(ret'.msg[1].id)) =>
             /\ ret'.value = FALSE
             /\ members' = members
             /\ DetachTimersOf(timers') = DetachTimersOf(timers)
       /\ (Ran("detachTimer") /\ Present(members, FirstDetach.ref)) =>
             /\ ~RowRendered(members', FirstDetach.id)
             /\ Len(members') = Len(members) - 1
       /\ (Ran("detachTimer") /\ ~Present(members, FirstDetach.ref)) =>
             members' = members]_vars

\* addMember has just been turned away for the id of a row whose removal is
\* pending; the row is still there, marked, and so is the timer.
C20_Witness ==
    /\ ret.op = "addMember" /\ ret.value = FALSE
    /\ RowRemovalPending(ret.msg[1].id)
    /\ \E k \in 1..Len(members) :
           members[k].id = ret.msg[1].id /\ members[k].deleting

\* Whether `new` is `old` with the class `name` toggled.
Toggles(old, new, name) ==
    new = IF name \in old THEN old \ {name} ELSE old \cup {name}

\* Whether the chevron went from one direction to the other.
IconFlips(old, new) ==
    \/ old = {"fa-chevron-left"} /\ new = {"fa-chevron-right"}
    \/ old = {"fa-chevron-right"} /\ new = {"fa-chevron-left"}

\* C21: below 768 px toggleSidebar and toggleMembers toggle only the panel's
\* class active; at 768 px or more they toggle the panel's class collapsed and
\* the companion class of the main content and flip the icon.
C21_BreakpointBranch ==
    [][/\ Ran("toggleSidebar") =>
            IF innerWidth < 768
            THEN /\ Toggles(sidebar, sidebar', "active")
                 /\ mainContent' = mainContent
                 /\ sidebarIcon' = sidebarIcon
            ELSE /\ Toggles(sidebar, sidebar', "collapsed")
                 /\ Toggles(mainContent, mainContent', "sidebar-collapsed")
                 /\ IconFlips(sidebarIcon, sidebarIcon')
       /\ Ran("toggleMembers") =>
            IF innerWidth < 768
            THEN /\ Toggles(membersSidebar, membersSidebar', "active")
                 /\ mainContent' = mainContent
                 /\ membersIcon' = membersIcon
            ELSE /\ Toggles(membersSidebar, membersSidebar', "collapsed")
                 /\ Toggles(mainContent, mainContent', "members-collapsed")
                 /\ IconFlips(membersIcon, membersIcon')]_vars

\* C22: the second of two toggleSidebar calls in a row puts the sidebar's
\* classes, the companion class and the icon back to what they were before
\* the first, and likewise for toggleMembers.
C22_PairRestores ==
    [][/\ (ret.op = "toggleSidebar" /\ Ran("toggleSidebar")) =>
            /\ sidebar' = ret.msg[1].sidebar
            /\ mainContent' = ret.msg[1].mainContent
            /\ sidebarIcon' = ret.msg[1].sidebarIcon
       /\ (ret.op = "toggleMembers" /\ Ran("toggleMembers")) =>
            /\ membersSidebar' = ret.msg[1].membersSidebar
            /\ mainContent' = ret.msg[1].mainContent
            /\ membersIcon' = ret.msg[1].membersIcon]_vars

\* C29: the sidebar button's icon points right exactly when the sidebar is
\* collapsed or active, and the main content carries sidebar-collapsed
\* exactly when the sidebar carries collapsed.
C29_SidebarInSync ==
    /\ ("fa-chevron-right" \in sidebarIcon) <=>
           ("collapsed" \in sidebar \/ "active" \in sidebar)
    /\ ("sidebar-collapsed" \in mainContent) <=> ("collapsed" \in sidebar)

\* C28: the body carries modal-open exactly when a modal is displayed.
C28_MarkerIffDisplayed ==
    bodyModalOpen <=> (\E id \in ModalIds : modals[id] = "flex")

\* C23: a successful sendMessage with a non-empty attachment list renders a
\* message with exactly one attachment, that of the first file of the list
\* (its name, and an image preview exactly when its type is an image type);
\* the other files leave no trace, and with an empty list the message has no
\* attachment.
C23_FirstAttachmentOnly ==
    [][(Ran("sendMessage") /\ ret'.value) =>
          LET shown == Last(messages').attachment IN
          IF ret'.atts = <<>>
          THEN shown = <<>>
          ELSE /\ Len(shown) = 1
               /\ shown[1].name = ret'.atts[1].name
               /\ shown[1].image = (ret'.atts[1].type[1] = "image")
               /\ shown[1].href = <<"blob:">> \o ret'.atts[1].name]_vars

\* A message sent with two files shows the first one, the pdf, and no image.
C23_Witness ==
    /\ ret.op = "sendMessage" /\ ret.value = TRUE
    /\ Len(ret.atts) = 2
    /\ ret.atts[1].name # ret.atts[2].name
    /\ Len(Last(messages).attachment) = 1
    /\ Last(messages).attachment[1].name = ret.atts[1].name
    /\ ~Last(messages).attachment[1].image

\* C24: updateMemberStatus(id, status) returns false and changes nothing when
\* no row with that id is rendered; otherwise it returns true and sets the
\* status of the row with that id to the string given, whatever it is, leaving
\* the row's other fields (name, role, pending-deletion mark) and every other
\* row as they are.  It shows no notification and starts no timer.
C24_StatusRewritten ==
    [][Ran("updateMemberStatus") =>
          LET id == ret'.text[1]
              status == ret'.msg[1]
          IN  /\ notifications' = notifications /\ timers' = timers
              /\ IF ~RowRendered(members, id)
                 THEN ret'.value = FALSE /\ members' = members
                 ELSE /\ ret'.value = TRUE
                      /\ Len(members') = Len(members)
                      /\ \A k \in 1..Len(members) :
                            members'[k] =
                                IF members[k].id = id
                                THEN [node |-> members[k].node, id |-> id,
                                      name |-> members[k].name,
                                      class |-> members[k].class,
                                      avatar |-> members[k].avatar,
                                      role |-> members[k].role,
                                      status |-> status,
                                      deleting |-> members[k].deleting]
                                ELSE members[k]]_vars

\* A row whose removal is pending was given a status the style sheet has no
\* rule for, next to another row that kept its own.
C24_Witness ==
    /\ ret.op = "updateMemberStatus" /\ ret.value = TRUE
    /\ ret.msg = <<"on leave">>
    /\ Len(members) = 2
    /\ \E k \in 1..2 :
           /\ members[k].id = ret.text[1]
           /\ members[k].status = "on leave" /\ members[k].deleting
           /\ members[3 - k].status = "online"

\* The last n characters of a name, the whole name when it is shorter.
Ending(name, n) ==
    IF Len(name) <= n THEN name ELSE SubSeq(name, Len(name) - n + 1, Len(name))

\* C25: the icon of a file's preview is the image icon when the MIME type
\* starts with image/, whatever the name; otherwise the pdf icon for a name
\* ending in .pdf, the word icon for .doc or .docx, the spreadsheet icon for
\* .xls or .xlsx, the slideshow icon for .ppt or .pptx, and the generic
\* document icon for anything else, upper-case extensions included.
C25_IconOrder ==
    [][Ran("handleFileUpload") =>
          LET file == ret'.atts[1]
              e4 == Ending(file.name, 4)
              e5 == Ending(file.name, 5)
          IN  Last(previews').icon =
                  IF Len(file.type) = 2 /\ file.type[1] = "image" THEN "image"
                  ELSE IF e4 = <<".", "p", "d", "f">> THEN "pdf"
                  ELSE IF e4 = <<".", "d", "o", "c">>
                          \/ e5 = <<".", "d", "o", "c", "x">> THEN "word"
                  ELSE IF e4 = <<".", "x", "l", "s">>
                          \/ e5 = <<".", "x", "l", "s", "x">> THEN "excel"
                  ELSE IF e4 = <<".", "p", "p", "t">>
                          \/ e5 = <<".", "p", "p", "t", "x">> THEN "powerpoint"
                  ELSE "document"]_vars

\* A file named a.pdf with an image type got the image icon.
C25_Witness ==
    /\ ret.op = "handleFileUpload"
    /\ ret.atts = <<[name |-> <<"a", ".", "p", "d", "f">>, type |-> <<"image", "png">>]>>
    /\ Last(previews).icon = "image"

\* C26: removeMember(id) on a row whose removal is already pending returns
\* true again and registers a timer of its own for the same row; every
\* removal timer that fires shows one "member deleted" success notification,
\* whether it still finds the row or not, and the row is detached by the
\* first of them only.
C26_DoubleRemoval ==
    [][/\ (Ran("removeMember") /\ RowRemovalPending(ret'.text[1])) =>
            /\ ret'.value = TRUE
            /\ Len(DetachTimersOf(timers')) = Len(DetachTimersOf(timers)) + 1
            /\ Last(timers').kind = "detach" /\ Last(timers').delay = 300
            /\ Last(timers').id = ret'.text[1]
            /\ \E i \in 1..Len(timers) :
                   timers[i].kind = "detach" /\ timers[i].ref = Last(timers').ref
            /\ Len(members') = Len(members)
       /\ Ran("detachTimer") =>
            /\ Len(notifications') = Len(notifications) + 1
            /\ IsPrefix(notifications, notifications')
            /\ Last(notifications').message = "member-deleted"
            /\ Last(notifications').type = "success"
            /\ Len(members') = IF Present(members, FirstDetach.ref)
                               THEN Len(members) - 1 ELSE Len(members)]_vars

\* The second timer of one member's two removals has just fired: it found the
\* row gone, and the two "member deleted" notifications are on screen together.
C26_Witness ==
    /\ ret.op = "detachTimer"
    /\ ~Present(ret.msg[1], ret.atts[1].ref)
    /\ Len(notifications) >= 2
    /\ Last(notifications).message = "member-deleted"
    /\ notifications[Len(notifications) - 1].message = "member-deleted"
    /\ ~notifications[Len(notifications) - 1].fadeOut

\* Positions of the user messages and of the agent messages in the list.
UserPositions == {i \in 1..Len(messages) : messages[i].class = "user-message"}
AgentPositions == {i \in 1..Len(messages) : messages[i].class = "agent-message"}

\* C27: with sends, toggles and reply timers interleaved in any way, the
\* agent replies in the list are never more than the user messages sent, each
\* reply stands after the user message whose send asked for it, no send gets
\* two replies, and the replies stand in the order of their sends.
C27_RepliesFollowSends ==
    /\ Cardinality(AgentPositions) <= Cardinality(UserPositions)
    /\ \A i \in AgentPositions :
           /\ origin[i].op = "reply"
           /\ \E j \in UserPositions :
                  j < i /\ origin[j] = [op |-> "send", id |-> origin[i].id]
    /\ \A i, k \in AgentPositions : i < k => origin[i].id < origin[k].id
    /\ \A i, k \in UserPositions : i < k => origin[i].id < origin[k].id

\* Two sends inside one window: user1, user2, reply1, reply2.
C27_Witness ==
    /\ Len(messages) = 4
    /\ UserPositions = {1, 2} /\ AgentPositions = {3, 4}
    /\ origin[3] = [op |-> "reply", id |-> origin[1].id]
    /\ origin[4] = [op |-> "reply", id |-> origin[2].id]

\* C30 as stated: the send button calls sendMessage with an empty attachment
\* list, so no sent message ever has an attachment, previews or not; with an
\* empty input the send is rejected as an empty message, with a non-empty one
\* the message rendered has no attachment.
C30_ButtonNeverAttaches ==
    [][Ran("sendMessage") =>
          /\ ret'.atts = <<>>
          /\ \A i \in 1..Len(messages') : messages'[i].attachment = <<>>
          /\ IF IsBlank(inputValue)
             THEN /\ ret'.value = FALSE
                  /\ messages' = messages /\ previews' = previews
                  /\ Last(notifications').message = "message-must-not-be-empty"
             ELSE ret'.value =>
                    /\ Len(messages') = Len(messages) + 1
                    /\ Last(messages').attachment = <<>>]_vars

\* C30 as amended: the same, the empty-message rejection being that of an
\* open chat; while the chat is closed the send is rejected as such whatever
\* the input holds.
C30_ButtonNeverAttachesWhileOpen ==
    [][Ran("sendMessage") =>
          /\ ret'.atts = <<>>
          /\ \A i \in 1..Len(messages') : messages'[i].attachment = <<>>
          /\ IF ~chatActive
             THEN /\ ret'.value = FALSE
                  /\ messages' = messages /\ previews' = previews
                  /\ Last(notifications').message = "chat-closed-cannot-send"
             ELSE IF IsBlank(inputValue)
             THEN /\ ret'.value = FALSE
                  /\ messages' = messages /\ previews' = previews
                  /\ Last(notifications').message = "message-must-not-be-empty"
             ELSE /\ ret'.value = TRUE
                  /\ Len(messages') = Len(messages) + 1
                  /\ Last(messages').class = "user-message"
                  /\ Last(messages').attachment = <<>>]_vars

\* The send button was clicked with a preview on the page, an empty input
\* and the chat open: rejected as an empty message, the preview still there.
C30_Witness ==
    /\ ret.op = "sendMessage" /\ ret.value = FALSE
    /\ chatActive
    /\ IsBlank(inputValue)
    /\ previews # <<>>
    /\ Last(notifications).message = "message-must-not-be-empty"
    /\ ~Last(notifications).fadeOut

====
